---- MODULE Spec2Model ----
(***************************************************************************)
(* Model of the decision core of the j1-blackjack-bot ("Bob"):             *)
(*   - CardCounter           (strategy/CardCounter.ts)                     *)
(*   - OptimalStrategy       (strategy/OptimalStrategy.ts)                 *)
(*   - ExperienceTracker     (learning/ExperienceTracker.ts)               *)
(*   - OpponentProfiler, MemoryManager, LearningCoordinator                *)
(*                           (learning/LearningCoordinator.ts)             *)
(* together with the GameClient handlers that drive them.                  *)
(***************************************************************************)
EXTENDS Integers, Sequences, FiniteSets, TLC

VARIABLES
    \* ---- CardCounter fields
    runningCount,   \* CardCounter.runningCount
    cardsDealt,     \* CardCounter.cardsDealt
    enabled,        \* CardCounter.enabled
    seen,           \* history: cards counted since the last reset
    \* ---- OptimalStrategy.calculateHitEV
    hitEV,          \* the invocation of calculateHitEV being evaluated
    \* ---- ExperienceTracker fields
    experiences,    \* ExperienceTracker.experiences
    sessions,       \* ExperienceTracker.sessions
    handsRecorded,      \* number of hands handed to recordHand so far
    sessionsRecorded,   \* number of sessions handed to recordSession so far
    \* ---- OpponentProfiler, MemoryManager, LearningCoordinator
    profiles,       \* OpponentProfiler.profiles
    memory,         \* MemoryManager.memory
    linked,         \* memory's lists and profile map are the tracker's and profiler's objects
    currentSessionId,           \* LearningCoordinator.currentSessionId
    currentSessionHandCount,    \* LearningCoordinator.currentSessionHandCount
    learnEnabled,   \* LearningCoordinator.enabled (config.botEnabled)
    learningEnabled,    \* config.learningEnabled (LEARNING_ENABLED)
    file,           \* the memory file on disk
    io,             \* progress of Deno.writeTextFile and the operation awaiting it
    outcome,        \* how the last operation that reads or writes the file ended
    adjustmentsAdded,   \* number of addStrategyAdjustment calls so far
    budget,         \* calls other than init and startSession, and crashes, left to explore
    \* ---- history of the calls made on one OpponentProfiler
    observedSessions,   \* per wallet, the session data handed to updateProfile, in order
    observations,       \* number of updateWithHandObservation calls so far
    \* ---- the betting phase of one session, as the backend and Bob see it
    hand_number,        \* GameState.hand_number
    acceptedBet,        \* Bob's bet for this hand in the backend's game_hands (0: none)
    stateBet,           \* PlayerState.bet in the snapshot the backend serves
    turn,               \* GameState.current_turn_seat: Bob's seat, another seat, or undefined
    placeBetRequests,   \* place_bet requests Bob has issued for this hand
    betsOverridden,     \* place_bet requests issued for a hand whose bet was already accepted
    waitedForTurn,      \* a poll has returned at the turn check of handleBettingPhase
    \* ---- SessionMonitor
    isRunning,          \* SessionMonitor.isRunning
    activeGameClient,   \* session id of SessionMonitor.activeGameClient, or NoClient
    registeredSessions, \* SessionMonitor.registeredSessions
    monitorPc,          \* where the loop of start() is: sleeping, in checkSessions, awaiting play()
    lobby,              \* the sessions of the fetched list still to be visited
    clientsPlaying,     \* GameClients whose play() has been called and has not returned
    reRegistered,       \* a session id was registered while already in registeredSessions
    feesPaid,           \* per session id, the entry fees Bob has paid for it
    \* ---- GameClient.play
    playPc,             \* where play() is: in its game loop, completing the session, returned
    currentHandNumber,  \* GameClient.currentHandNumber
    actionsExecuted,    \* calls of executeAction made by handleActionPhase
    pollBackoff,        \* GameClient.pollBackoff
    lastHandNumber,     \* GameClient.lastHandNumber
    samePhaseCount,     \* GameClient.samePhaseCount
    stuckMinutes,       \* whole minutes from GameClient.lastPhaseChangeTime to Date.now()
    lastPoll,           \* how the last pass of the game loop ended
    table,              \* the hand on the table as the backend reports it in the action phase
    shown,              \* ranks of the distinct cards that polled states have shown to Bob
    \* ---- OptimalStrategy
    lastCall            \* the call of getDecision in progress: its arguments, the counter, the result

counterVars == <<runningCount, cardsDealt, enabled, seen>>

trackerVars == <<experiences, sessions, handsRecorded, sessionsRecorded>>

learnVars == <<profiles, memory, linked, currentSessionId, currentSessionHandCount,
               learnEnabled, learningEnabled, file, io, outcome, adjustmentsAdded, budget>>

profilerVars == <<observedSessions, observations>>

betVars == <<hand_number, acceptedBet, stateBet, turn, placeBetRequests, betsOverridden,
             waitedForTurn>>

monitorVars == <<isRunning, activeGameClient, registeredSessions, monitorPc, lobby,
                 clientsPlaying, reRegistered, feesPaid>>

loopVars == <<pollBackoff, lastHandNumber, samePhaseCount, stuckMinutes, lastPoll>>
tableVars == <<table, shown>>
playVars == <<playPc, currentHandNumber, actionsExecuted, loopVars, tableVars>>

vars == <<counterVars, hitEV, trackerVars, learnVars, profilerVars, betVars, monitorVars,
          playVars, lastCall>>

(***************************************************************************)
(* Bounds of the exploration.                                              *)
(***************************************************************************)
MaxSeen == 3        \* length of the recorded card history
MaxDealt == 418     \* cap on cardsDealt in the whole-shoe exploration
MaxHandCards == 2   \* cards in Bob's hand in one game-state poll
ChipStacks == {50, 100, 1000}   \* chip stacks offered to getBet
MaxOverflow == 2    \* records inserted beyond a cap
MaxOps == 2         \* calls other than init and startSession, and crashes, explored
MaxProfileSessions == 3     \* updateProfile calls explored on one profiler
MaxObservations == 2        \* updateWithHandObservation calls explored on one profiler
MaxHands == 3               \* hands of a session explored in the betting phase
MaxBetRequests == 3         \* place_bet requests explored per hand
MaxLobby == 2               \* sessions in one answer of the lobby
MaxActions == 2             \* actions executed in one session
MaxLearnedHands == 6        \* hands recorded before a learned adjustment is asked for
MaxPerformanceUpdates == 5     \* updatePerformance calls explored on one memory
MaxStuckMinutes == 6        \* minutes without a new hand that the game loop's clock counts
MaxLoopHands == 2           \* hand numbers the backend reports to the game loop
MaxTableHands == 2          \* hands dealt at the table
MaxTallyOps == 5            \* recordHand and recordSession calls on a new memory
MaxFees == 2                \* entry fees paid for one session
MaxCounted == 7             \* cap on cardsDealt while the table is polled

(***************************************************************************)
(* Cards.  The counter and the strategy read only card.rank.               *)
(***************************************************************************)
Ranks == {"2", "3", "4", "5", "6", "7", "8", "9", "10", "J", "Q", "K", "A"}

\* One rank of each Hi-Lo class, used for the cards of polled game states.
PollRanks == {"5", "8", "K"}

RECURSIVE SeqsUpTo(_, _)
SeqsUpTo(S, n) ==
    IF n = 0 THEN {<<>>}
    ELSE LET shorter == SeqsUpTo(S, n - 1)
         IN  shorter \cup {Append(s, x) : s \in {t \in shorter : Len(t) = n - 1}, x \in S}

\* dealer_hand (possibly still empty) and Bob's cards (two or more) in a
\* polled game state of the action phase
PollDealerHands == SeqsUpTo(PollRanks, 1)
PollHands == {h \in SeqsUpTo(PollRanks, MaxHandCards) : Len(h) >= 2}

(***************************************************************************)
(* CardCounter                                                             *)
(***************************************************************************)
totalCards == 416

\* config.ts defaults
minBet == 25
maxBet == 100
countThresholdBetIncrease == 2

Min(a, b) == IF a <= b THEN a ELSE b
Max(a, b) == IF a >= b THEN a ELSE b

\* updateCount with "10" left out of the high-card list.
updateCount_missingTen(c, rank) ==
    IF ~c.en THEN c
    ELSE [c EXCEPT !.cd = c.cd + 1,
                   !.rc = IF rank \in {"2", "3", "4", "5", "6"} THEN c.rc + 1
                          ELSE IF rank \in {"J", "Q", "K", "A"} THEN c.rc - 1
                          ELSE c.rc]

\* One call of updateCount on the counter state c = [rc, cd, en].
updateCount(c, rank) ==
    IF ~c.en THEN c
    ELSE [c EXCEPT !.cd = c.cd + 1,
                   !.rc = IF rank \in {"2", "3", "4", "5", "6"} THEN c.rc + 1
                          ELSE IF rank \in {"10", "J", "Q", "K", "A"} THEN c.rc - 1
                          ELSE c.rc]

\* updateCount applied to the cards of a sequence, first to last.
RECURSIVE observeAll(_, _)
observeAll(c, cards) ==
    IF cards = <<>> THEN c
    ELSE observeAll(updateCount(c, Head(cards)), Tail(cards))

Counter == [rc |-> runningCount, cd |-> cardsDealt, en |-> enabled]

\* (rc, cd) for which the double-precision product (rc / decksRemaining) * 10
\* lies just below an exact .5 tie, so that Math.round goes down.
DoubleTieBelow ==
    [cd \in {96, 176, 256, 336} |->
        CASE cd = 96  -> {4, 68}
          [] cd = 176 -> {-171, -153, -141, -135, -105, -99, -93, -57, -39, -27, -21, -15}
          [] cd = 256 -> {2, 34, 58, 74, 78, 106, 126, 138, 146, 202, 222, 242, 246}
          [] cd = 336 -> {1, 17, 29, 37, 39, 53, 63, 69, 73, 101, 111, 121, 123, 131,
                          133, 141, 143, 151, 153, 197, 207, 217, 227, 237, 241, 247,
                          251, 257, 261, 267, 271, 277, 281, 287, 291, 297, 301, 307, 311}]

\* getTrueCount with the quotient truncated instead of rounded
getTrueCount10_truncates(c) ==
    IF ~c.en THEN 0
    ELSE LET cardsRemaining == totalCards - c.cd
         IN  IF cardsRemaining <= 0 THEN 0
             ELSE (c.rc * 520) \div cardsRemaining

\* getTrueCount without the test of this.enabled
getTrueCount10_ignoresEnabled(c) ==
    LET cardsRemaining == totalCards - c.cd
    IN  IF cardsRemaining <= 0 THEN 0
        ELSE (2 * c.rc * 520 + cardsRemaining) \div (2 * cardsRemaining)

\* getTrueCount, in tenths: the value returned is getTrueCount10 / 10.
\*   decksRemaining = (totalCards - cardsDealt) / 52
\*   Math.round(runningCount / decksRemaining * 10) / 10
getTrueCount10(c) ==
    IF ~c.en THEN 0
    ELSE LET cardsRemaining == totalCards - c.cd
         IN  IF cardsRemaining <= 0 THEN 0
             ELSE LET num == c.rc * 520
                      exact == (2 * num + cardsRemaining) \div (2 * cardsRemaining)
                  IN  IF c.cd \in DOMAIN DoubleTieBelow /\ c.rc \in DoubleTieBelow[c.cd]
                      THEN exact - 1
                      ELSE exact

\* The betting ramp with a true count on a boundary left in the lower tier
betForTrueCount_boundaryLow(tc10, currentChips) ==
    LET cappedMax == Min(maxBet, currentChips)
    IN  IF tc10 > 50 THEN cappedMax
        ELSE IF tc10 > 40 THEN (cappedMax * 8) \div 10
        ELSE IF tc10 > 30 THEN (cappedMax * 6) \div 10
        ELSE IF tc10 > countThresholdBetIncrease * 10 THEN (cappedMax * 4) \div 10
        ELSE minBet

\* The betting ramp of getBet for a true count given in tenths.
betForTrueCount(tc10, currentChips) ==
    LET cappedMax == Min(maxBet, currentChips)
    IN  IF tc10 >= 50 THEN cappedMax
        ELSE IF tc10 >= 40 THEN Min((cappedMax * 8) \div 10, currentChips)
        ELSE IF tc10 >= 30 THEN Min((cappedMax * 6) \div 10, currentChips)
        ELSE IF tc10 >= countThresholdBetIncrease * 10
             THEN Min((cappedMax * 4) \div 10, currentChips)
        ELSE IF tc10 <= -20 THEN minBet
        ELSE minBet

\* getBet with six low cards taken for a count that raises the bet
getBet_rampFromCountSix(c, currentChips) ==
    IF ~c.en THEN minBet
    ELSE IF c.rc >= 6 THEN Min(maxBet, currentChips)
    ELSE minBet

getBet(c, currentChips) ==
    IF ~c.en THEN minBet
    ELSE betForTrueCount(getTrueCount10(c), currentChips)

\* shouldTakeInsurance: trueCount >= 3
shouldTakeInsurance(c) ==
    IF ~c.en THEN FALSE
    ELSE getTrueCount10(c) >= 30

\* getStrategyModifier, in thousandths:
\*   Math.max(-0.1, Math.min(0.1, trueCount * 0.02))
getStrategyModifier1000(c) ==
    IF ~c.en THEN 0
    ELSE Max(-100, Min(100, getTrueCount10(c) * 2))

(***************************************************************************)
(* Actions on the CardCounter                                              *)
(***************************************************************************)
SetCounter(c) ==
    /\ runningCount' = c.rc
    /\ cardsDealt' = c.cd
    /\ enabled' = c.en

\* OptimalStrategy.observeCard -> CardCounter.updateCount
UpdateCount(rank) ==
    SetCounter(updateCount(Counter, rank))

\* CardCounter.reset
Reset ==
    /\ runningCount' = 0
    /\ cardsDealt' = 0
    /\ UNCHANGED enabled

\* CardCounter.setEnabled
SetEnabled(e) ==
    /\ enabled' = e
    /\ UNCHANGED <<runningCount, cardsDealt>>

\* The counting part of GameClient.handleActionPhase: the dealer's upcard
\* (when the dealer has cards) and then every card of Bob's hand.
handleActionPhaseCards(dealerHand, myCards) ==
    (IF Len(dealerHand) > 0 THEN <<dealerHand[1]>> ELSE <<>>) \o myCards

HandleActionPhaseObserve(dealerHand, myCards) ==
    SetCounter(observeAll(Counter, handleActionPhaseCards(dealerHand, myCards)))

\* History of the cards an enabled counter has counted since the last reset.
Record(cards) ==
    seen' = IF enabled THEN seen \o cards ELSE seen

CounterInit ==
    /\ runningCount = 0
    /\ cardsDealt = 0
    /\ enabled \in BOOLEAN
    /\ seen = <<>>

otherThanCounter == <<hitEV, trackerVars, learnVars, profilerVars, betVars, monitorVars, playVars, lastCall>>

(***************************************************************************)
(* OptimalStrategy.calculateHitEV: the tree of recursive invocations.      *)
(* hitEV is the invocation at the top of the call stack.                   *)
(***************************************************************************)
hitDepthLimit == 5

\* keys of cardProbs: 1 is the ace, 10 the ten group
CardValues == 1..10

NoCall == [pc |-> "idle", playerTotal |-> 0, dealerUpcard |-> 0, isSoft |-> FALSE, depth |-> 0]

\* The loop body of calculateHitEV up to the  newTotal > 21  test:
\* the total and soft flag after drawing cardValue.
hitDraw(playerTotal, isSoft, cardValue) ==
    LET t1 == IF cardValue = 1
              THEN (IF playerTotal + 11 <= 21 THEN playerTotal + 11 ELSE playerTotal + 1)
              ELSE playerTotal + cardValue
        s1 == IF cardValue = 1 /\ playerTotal + 11 <= 21 THEN TRUE ELSE isSoft
    IN  IF s1 /\ t1 > 21
        THEN [newTotal |-> t1 - 10, newIsSoft |-> FALSE]
        ELSE [newTotal |-> t1, newIsSoft |-> s1]

\* calculateHitEV(playerTotal, dealerUpcard, isSoft, depth) returns at once.
hitReturnsDirectly(call) ==
    \/ call.playerTotal > 21
    \/ call.depth > hitDepthLimit

\* The invocation at call draws cardValue and calls calculateHitEV again.
hitRecursesOn(call, cardValue) ==
    /\ ~hitReturnsDirectly(call)
    /\ hitDraw(call.playerTotal, call.isSoft, cardValue).newTotal < 21

\* getDecision and calculateSplitEV call calculateHitEV with the default depth 0.
\* Hand totals are 4..21 (soft ones 12..21); a split hand starts at the pair value 2..10.
HitEVCall ==
    \E playerTotal \in 2..21, dealerUpcard \in 2..11, isSoft \in BOOLEAN :
        /\ hitEV.pc = "idle"
        /\ isSoft => playerTotal >= 12
        /\ hitEV' = [pc |-> "running", playerTotal |-> playerTotal,
                     dealerUpcard |-> dealerUpcard, isSoft |-> isSoft, depth |-> 0]
        /\ UNCHANGED <<counterVars, trackerVars, learnVars, profilerVars, betVars, monitorVars, playVars, lastCall>>

HitEVRecurse ==
    \E cardValue \in CardValues :
        /\ hitEV.pc = "running"
        /\ hitRecursesOn(hitEV, cardValue)
        /\ hitEV' = [hitEV EXCEPT
                        !.playerTotal = hitDraw(hitEV.playerTotal, hitEV.isSoft, cardValue).newTotal,
                        !.isSoft = hitDraw(hitEV.playerTotal, hitEV.isSoft, cardValue).newIsSoft,
                        !.depth = hitEV.depth + 1]
        /\ UNCHANGED <<counterVars, trackerVars, learnVars, profilerVars, betVars, monitorVars, playVars, lastCall>>

\* The evaluation completes and control is back in the caller of depth 0.
HitEVReturn ==
    /\ hitEV.pc = "running"
    /\ hitEV' = NoCall
    /\ UNCHANGED <<counterVars, trackerVars, learnVars, profilerVars, betVars, monitorVars, playVars, lastCall>>

HitEVInit == hitEV = NoCall

(***************************************************************************)
(* ExperienceTracker                                                       *)
(***************************************************************************)
maxExperiences == 1000
maxSessions == 100

\* Array.push followed by one Array.shift when the length exceeds cap.
pushCapped(list, x, cap) ==
    LET pushed == Append(list, x)
    IN  IF Len(pushed) > cap THEN Tail(pushed) ELSE pushed

\* ExperienceTracker.recordHand
recordHand(list, experience) == pushCapped(list, experience, maxExperiences)

\* recordSession evicting the record just pushed instead of the oldest
trackerRecordSession_evictsNewest(list, session) ==
    IF Len(list) >= maxSessions THEN list ELSE Append(list, session)

\* ExperienceTracker.recordSession
trackerRecordSession(list, session) == pushCapped(list, session, maxSessions)

\* GameExperience: the fields the learning code reads.  The n-th hand played
\* carries handNumber n.

StockHand(n) ==
    [sessionId |-> 1, handNumber |-> n, playerTotal |-> 16, dealerUpcard |-> "7",
     actionTaken |-> "hit", betSize |-> 25, handResult |-> "loss", chipsWon |-> -25]

\* SessionResult: the n-th session completed carries sessionId n.
StockSession(n) ==
    [sessionId |-> n, finalRank |-> 2, finalChips |-> 900, netProfit |-> -100,
     opponents |-> <<>>]

TrackerInit ==
    /\ experiences = <<>>
    /\ sessions = <<>>
    /\ handsRecorded = 0
    /\ sessionsRecorded = 0

(***************************************************************************)
(* Numbers.  The statistics of the learning code are fractions; they are   *)
(* kept exactly, as reduced pairs [n, d] with d > 0.                       *)
(***************************************************************************)
Abs(x) == IF x < 0 THEN -x ELSE x

RECURSIVE GCD(_, _)
GCD(a, b) == IF b = 0 THEN a ELSE GCD(b, a % b)

Rat(n, d) ==
    LET g == GCD(Abs(n), Abs(d))
        sgn == IF d < 0 THEN -1 ELSE 1
    IN  IF n = 0 THEN [n |-> 0, d |-> 1]
        ELSE [n |-> sgn * (n \div g), d |-> sgn * (d \div g)]

Int2Rat(k) == [n |-> k, d |-> 1]
RatAdd(a, b) == Rat(a.n * b.d + b.n * a.d, a.d * b.d)
RatSub(a, b) == Rat(a.n * b.d - b.n * a.d, a.d * b.d)
RatMul(a, b) == Rat(a.n * b.n, a.d * b.d)
RatDivInt(a, k) == Rat(a.n, a.d * k)
RatLess(a, b) == a.n * b.d < b.n * a.d
RatMin(a, b) == IF RatLess(b, a) THEN b ELSE a
RatMax(a, b) == IF RatLess(a, b) THEN b ELSE a

(***************************************************************************)
(* OpponentProfiler.  A Map is a sequence of [key, value] entries in       *)
(* insertion order.                                                        *)
(***************************************************************************)
mapHas(m, k) == \E i \in 1..Len(m) : m[i].key = k

mapGet(m, k) == m[CHOOSE i \in 1..Len(m) : m[i].key = k].value

\* Map.set: replaces the value of an existing key in place, else appends.
mapSet(m, k, v) ==
    IF mapHas(m, k)
    THEN [i \in 1..Len(m) |-> IF m[i].key = k THEN [key |-> k, value |-> v] ELSE m[i]]
    ELSE Append(m, [key |-> k, value |-> v])

\* Array.from(map.values())
mapValues(m) == [i \in 1..Len(m) |-> m[i].value]

createNewProfile(walletAddress, now) ==
    [walletAddress |-> walletAddress,
     sessionsPlayed |-> 0,
     lastSeenAt |-> now,
     firstSeenAt |-> now,
     bobWins |-> 0,
     opponentWins |-> 0,
     stats |-> [avgBetSize |-> Int2Rat(0),
                avgFinalChips |-> Int2Rat(0),
                avgFinalRank |-> Int2Rat(0),
                hitFrequency |-> Int2Rat(0),
                standFrequency |-> Int2Rat(0),
                doubleFrequency |-> Int2Rat(0),
                splitFrequency |-> Int2Rat(0),
                aggressionScore |-> Rat(1, 2),
                skillScore |-> Rat(1, 2),
                consistencyScore |-> Rat(1, 2)],
     patterns |-> [hitOn16VsDealer7 |-> Int2Rat(0),
                   standOn12VsDealer2 |-> Int2Rat(0),
                   doubleOn11 |-> Int2Rat(0),
                   splitAces |-> Int2Rat(0),
                   split10s |-> Int2Rat(0),
                   increaseBetAfterWin |-> Int2Rat(0),
                   increaseBetAfterLoss |-> Int2Rat(0),
                   averageRiskLevel |-> Rat(1, 2)],
     weaknesses |-> <<>>]

\* (currentAvg * n + newValue) / (n + 1)
runningAverage(currentAvg, newValue, n) ==
    RatDivInt(RatAdd(RatMul(currentAvg, Int2Rat(n)), newValue), n + 1)

\* current * (1 - alpha) + observed * alpha,  alpha = 1 / max(1, weight)
updateFrequency(current, observed, weight) ==
    LET alpha == Rat(1, Max(1, weight))
    IN  RatAdd(RatMul(current, RatSub(Int2Rat(1), alpha)), RatMul(Int2Rat(observed), alpha))

updateStats(profile, sessionData) ==
    LET n == profile.sessionsPlayed
        st == profile.stats
        totalActions == sessionData.totalHits + sessionData.totalStands
                        + sessionData.totalDoubles + sessionData.totalSplits
        avgs == [st EXCEPT
                   !.avgBetSize = runningAverage(st.avgBetSize, Int2Rat(sessionData.avgBetSize), n),
                   !.avgFinalChips = runningAverage(st.avgFinalChips, Int2Rat(sessionData.finalChips), n),
                   !.avgFinalRank = runningAverage(st.avgFinalRank, Int2Rat(sessionData.finalRank), n)]
    IN  [profile EXCEPT !.stats =
            IF totalActions > 0
            THEN [avgs EXCEPT
                    !.hitFrequency = runningAverage(st.hitFrequency,
                                        Rat(sessionData.totalHits, totalActions), n),
                    !.standFrequency = runningAverage(st.standFrequency,
                                        Rat(sessionData.totalStands, totalActions), n),
                    !.doubleFrequency = runningAverage(st.doubleFrequency,
                                        Rat(sessionData.totalDoubles, totalActions), n),
                    !.splitFrequency = runningAverage(st.splitFrequency,
                                        Rat(sessionData.totalSplits, totalActions), n)]
            ELSE avgs]

calculateScores(profile) ==
    LET st == profile.stats
        pt == profile.patterns
        avgBetNormalized == RatMin(Int2Rat(1), RatDivInt(st.avgBetSize, 75))
        doubleFreqNormalized == RatMul(st.doubleFrequency, Int2Rat(2))
        s0 == Rat(1, 2)
        s1 == IF RatLess(Rat(8, 10), pt.doubleOn11) THEN RatAdd(s0, Rat(1, 10)) ELSE s0
        s2 == IF RatLess(Rat(8, 10), pt.splitAces) THEN RatAdd(s1, Rat(1, 10)) ELSE s1
        s3 == IF RatLess(Rat(6, 10), pt.hitOn16VsDealer7) THEN RatAdd(s2, Rat(5, 100)) ELSE s2
        s4 == IF RatLess(Rat(5, 100), pt.split10s) THEN RatSub(s3, Rat(3, 10)) ELSE s3
        s5 == IF RatLess(Rat(6, 10), pt.standOn12VsDealer2) THEN RatSub(s4, Rat(1, 10)) ELSE s4
        s6 == IF RatLess(RatMul(Int2Rat(profile.sessionsPlayed), Rat(6, 10)), st.avgFinalRank)
              THEN RatSub(s5, Rat(1, 10)) ELSE s5
    IN  [profile EXCEPT
            !.stats.aggressionScore = RatDivInt(RatAdd(avgBetNormalized, doubleFreqNormalized), 2),
            !.stats.skillScore = RatMax(Int2Rat(0), RatMin(Int2Rat(1), s6)),
            !.stats.consistencyScore = Rat(7, 10)]

identifyWeaknesses(profile) ==
    LET st == profile.stats
        pt == profile.patterns
        tag(cond, name) == IF cond THEN <<name>> ELSE <<>>
    IN  [profile EXCEPT !.weaknesses =
               tag(RatLess(Rat(75, 100), st.aggressionScore), "overly_aggressive")
            \o tag(RatLess(st.aggressionScore, Rat(25, 100)), "overly_conservative")
            \o tag(RatLess(st.skillScore, Rat(4, 10)), "poor_strategy")
            \o tag(RatLess(Rat(5, 100), pt.split10s), "splits_tens")
            \o tag(RatLess(pt.doubleOn11, Rat(5, 10)), "misses_double_opportunities")
            \o tag(RatLess(st.doubleFrequency, Rat(5, 100)), "rarely_doubles")]

\* OpponentProfiler.updateProfile on the Map m.
updateProfile(m, walletAddress, sessionData, bobRank, now) ==
    LET found == IF mapHas(m, walletAddress) THEN mapGet(m, walletAddress)
                 ELSE createNewProfile(walletAddress, now)
        seenAgain == [found EXCEPT
                        !.sessionsPlayed = found.sessionsPlayed + 1,
                        !.lastSeenAt = now,
                        !.bobWins = IF bobRank < sessionData.finalRank
                                    THEN found.bobWins + 1 ELSE found.bobWins,
                        !.opponentWins = IF bobRank > sessionData.finalRank
                                         THEN found.opponentWins + 1 ELSE found.opponentWins]
    IN  mapSet(m, walletAddress, identifyWeaknesses(calculateScores(updateStats(seenAgain, sessionData))))

\* The  for (const opponent of sessionResult.opponents)  loop of recordSession.
RECURSIVE updateProfiles(_, _, _, _)
updateProfiles(m, opponents, bobRank, now) ==
    IF opponents = <<>> THEN m
    ELSE updateProfiles(updateProfile(m, Head(opponents).walletAddress, Head(opponents), bobRank, now),
                        Tail(opponents), bobRank, now)

\* OpponentProfiler.updateWithHandObservation on the Map m.  The profile
\* object in the Map is changed in place; scores and weaknesses are not
\* touched.
updateWithHandObservation(m, walletAddress, observation) ==
    IF ~mapHas(m, walletAddress) THEN m
    ELSE LET profile == mapGet(m, walletAddress)
             pt == profile.patterns
             w == profile.sessionsPlayed
             is(situation, action) ==
                 observation.situation = situation /\ observation.action = action
             pt1 == IF is("16_vs_7", "hit")
                        THEN [pt EXCEPT !.hitOn16VsDealer7 = updateFrequency(@, 1, w)]
                    ELSE IF is("12_vs_2", "stand")
                        THEN [pt EXCEPT !.standOn12VsDealer2 = updateFrequency(@, 1, w)]
                    ELSE IF is("11", "double")
                        THEN [pt EXCEPT !.doubleOn11 = updateFrequency(@, 1, w)]
                    ELSE IF is("AA", "split")
                        THEN [pt EXCEPT !.splitAces = updateFrequency(@, 1, w)]
                    ELSE IF is("TT", "split")
                        THEN [pt EXCEPT !.split10s = updateFrequency(@, 1, w)]
                    ELSE pt
         IN  mapSet(m, walletAddress, [profile EXCEPT !.patterns = pt1])

Wallets == {"w1", "w2"}

SessionData(w, bet, rank, chips, hits, stands, doubles, splits) ==
    [walletAddress |-> w, finalRank |-> rank, finalChips |-> chips, avgBetSize |-> bet,
     totalHits |-> hits, totalStands |-> stands, totalDoubles |-> doubles,
     totalSplits |-> splits]

\* OpponentSessionData records offered to updateProfile: a high bettor who
\* only doubles, a low bettor who never doubles, a player who took no action.
ProfileSessionInputs(w) ==
    { SessionData(w, 100, 1, 1500, 0, 0, 4, 0),
      SessionData(w, 25, 4, 0, 6, 4, 0, 0),
      SessionData(w, 0, 2, 500, 0, 0, 0, 0) }

BobRanks == {1, 2}

\* The observations offered to updateWithHandObservation: the five tracked
\* plays and one that is not tracked.
HandObservations ==
    { [situation |-> "16_vs_7", action |-> "hit"],
      [situation |-> "12_vs_2", action |-> "stand"],
      [situation |-> "11", action |-> "double"],
      [situation |-> "AA", action |-> "split"],
      [situation |-> "TT", action |-> "split"],
      [situation |-> "TT", action |-> "stand"] }

ProfilerInit ==
    /\ observedSessions = [w \in Wallets |-> <<>>]
    /\ observations = 0

SessionsObserved == Len(observedSessions["w1"]) + Len(observedSessions["w2"])

\* profiler.updateProfile(walletAddress, sessionData, bobRank)
ProfilerUpdateProfile ==
    /\ SessionsObserved < MaxProfileSessions
    /\ \E w \in Wallets, bobRank \in BobRanks :
         \E sessionData \in ProfileSessionInputs(w) :
            /\ profiles' = updateProfile(profiles, w, sessionData, bobRank, SessionsObserved + 1)
            /\ observedSessions' = [observedSessions EXCEPT ![w] = Append(@, sessionData)]
    /\ UNCHANGED observations

\* profiler.updateWithHandObservation(walletAddress, observation)
ProfilerObserveHand ==
    /\ observations < MaxObservations
    /\ \E w \in Wallets, observation \in HandObservations :
            profiles' = updateWithHandObservation(profiles, w, observation)
    /\ observations' = observations + 1
    /\ UNCHANGED observedSessions

(***************************************************************************)
(* MemoryManager                                                           *)
(***************************************************************************)
maxPerformanceWindow == 100
maxStrategyAdjustments == 50
baselineSessions == 20

\* Date.now(): the number of records made so far
Now == handsRecorded + sessionsRecorded + adjustmentsAdded

createEmptyMemory(now, botEnabled) ==
    [version |-> "1.0.0",
     totalSessionsPlayed |-> 0,
     totalHandsPlayed |-> 0,
     learningEnabled |-> botEnabled,
     lastUpdated |-> now,
     opponentProfiles |-> <<>>,
     performance |-> [winRateBySession |-> <<>>,
                      avgRankBySession |-> <<>>,
                      avgChipsBySession |-> <<>>,
                      totalWins |-> 0,
                      totalTop3 |-> 0,
                      totalProfit |-> 0,
                      winRateBeforeLearning |-> Int2Rat(0),
                      winRateAfterLearning |-> Int2Rat(0)],
     recentExperiences |-> <<>>,
     recentSessions |-> <<>>,
     strategyAdjustments |-> <<>>]

countWins(list) == Cardinality({i \in 1..Len(list) : list[i] = 1})

\* updatePerformance shifting only the win-rate window
updatePerformance_shiftsWinRateOnly(mem, sessionResult) ==
    LET perf == mem.performance
        w1 == Append(perf.winRateBySession, IF sessionResult.finalRank = 1 THEN 1 ELSE 0)
    IN  [mem EXCEPT
            !.performance =
                [perf EXCEPT
                    !.winRateBySession = IF Len(w1) > maxPerformanceWindow THEN Tail(w1) ELSE w1,
                    !.avgRankBySession = Append(@, sessionResult.finalRank),
                    !.avgChipsBySession = Append(@, sessionResult.finalChips)],
            !.totalSessionsPlayed = @ + 1]

\* MemoryManager.updatePerformance
updatePerformance(mem, sessionResult) ==
    LET perf == mem.performance
        w1 == Append(perf.winRateBySession, IF sessionResult.finalRank = 1 THEN 1 ELSE 0)
        r1 == Append(perf.avgRankBySession, sessionResult.finalRank)
        c1 == Append(perf.avgChipsBySession, sessionResult.finalChips)
        over == Len(w1) > maxPerformanceWindow
        w2 == IF over THEN Tail(w1) ELSE w1
        r2 == IF over THEN Tail(r1) ELSE r1
        c2 == IF over THEN Tail(c1) ELSE c1
        recent20 == IF Len(w2) > 20 THEN SubSeq(w2, Len(w2) - 19, Len(w2)) ELSE w2
    IN  [mem EXCEPT
            !.performance =
                [perf EXCEPT
                    !.winRateBySession = w2,
                    !.avgRankBySession = r2,
                    !.avgChipsBySession = c2,
                    !.totalWins = IF sessionResult.finalRank = 1 THEN @ + 1 ELSE @,
                    !.totalTop3 = IF sessionResult.finalRank <= 3 THEN @ + 1 ELSE @,
                    !.totalProfit = @ + sessionResult.netProfit,
                    !.winRateBeforeLearning =
                        IF mem.totalSessionsPlayed <= baselineSessions
                        THEN Rat(countWins(w2), Len(w2)) ELSE @,
                    !.winRateAfterLearning =
                        IF mem.totalSessionsPlayed <= baselineSessions
                        THEN @ ELSE Rat(countWins(recent20), Len(recent20))],
            !.totalSessionsPlayed = @ + 1]

\* MemoryManager.updateOpponentProfiles
updateOpponentProfiles(mem, profileMap) ==
    [mem EXCEPT !.opponentProfiles = profileMap]

\* MemoryManager.updateExperiences
updateExperiences(mem, exps, sess) ==
    [mem EXCEPT !.recentExperiences = exps,
                !.recentSessions = sess,
                !.totalHandsPlayed = @ + Len(exps)]

\* MemoryManager.addStrategyAdjustment
addStrategyAdjustment(mem, situation, adjustment, reason, now) ==
    [mem EXCEPT !.strategyAdjustments =
        pushCapped(@, [timestamp |-> now, situation |-> situation,
                       adjustment |-> adjustment, reason |-> reason],
                   maxStrategyAdjustments)]

(***************************************************************************)
(* The memory file.  It is absent, holds the complete JSON text of one     *)
(* snapshot, or holds a proper prefix of such a text (the file has been    *)
(* truncated and not yet written to the end).                              *)
(***************************************************************************)
Missing == [kind |-> "missing"]
Torn == [kind |-> "torn"]

\* save writing only the first profile of the Map
serializable_firstProfileOnly(mem, now) ==
    [mem EXCEPT !.opponentProfiles = IF mem.opponentProfiles = <<>> THEN <<>>
                                     ELSE <<mapValues(mem.opponentProfiles)[1]>>,
                !.lastUpdated = now]

\* The object handed to JSON.stringify by save: the profile Map becomes the
\* array of its values.
serializable(mem, now) ==
    [mem EXCEPT !.opponentProfiles = mapValues(mem.opponentProfiles),
                !.lastUpdated = now]

Written(mem, now) == [kind |-> "json", doc |-> serializable(mem, now)]

\* profilesMap.set(profile.walletAddress, profile) for each stored profile
RECURSIVE profilesFromArray(_, _)
profilesFromArray(m, array) ==
    IF array = <<>> THEN m
    ELSE profilesFromArray(mapSet(m, Head(array).walletAddress, Head(array)), Tail(array))

\* load letting the error of JSON.parse escape
load_raisesOnParseError(mem, f) ==
    CASE f.kind = "missing" -> [memory |-> mem, raised |-> FALSE, saw |-> "missing"]
      [] f.kind = "torn"    -> [memory |-> mem, raised |-> TRUE, saw |-> "torn"]
      [] f.kind = "json"    ->
            [memory |-> [f.doc EXCEPT !.opponentProfiles = profilesFromArray(<<>>, f.doc.opponentProfiles)],
             raised |-> FALSE,
             saw |-> "json"]

\* MemoryManager.load: the new this.memory, whether load raised, and what
\* readTextFile / JSON.parse met.
load(mem, f) ==
    CASE f.kind = "missing" -> [memory |-> mem, raised |-> FALSE, saw |-> "missing"]
      [] f.kind = "torn"    -> [memory |-> mem, raised |-> FALSE, saw |-> "torn"]
      [] f.kind = "json"    ->
            [memory |-> [f.doc EXCEPT !.opponentProfiles = profilesFromArray(<<>>, f.doc.opponentProfiles)],
             raised |-> FALSE,
             saw |-> "json"]

(***************************************************************************)
(* LearningCoordinator                                                     *)
(***************************************************************************)
NoSession == 0      \* currentSessionId = null

Idle == [pc |-> "idle", caller |-> "none"]

NoOutcome == [op |-> "none", raised |-> FALSE, rejected |-> FALSE, saw |-> "none"]

Done(op) == [op |-> op, raised |-> FALSE, rejected |-> FALSE, saw |-> "none"]

\* GameExperience records offered to recordHand (hand number n of session sid)
HandInputs(n, sid) ==
    { [sessionId |-> sid, handNumber |-> n, playerTotal |-> 11, dealerUpcard |-> "6",
       actionTaken |-> "double", betSize |-> 50, handResult |-> "win", chipsWon |-> 100] }

OpponentData(w, rank, chips) ==
    [walletAddress |-> w, finalRank |-> rank, finalChips |-> chips, avgBetSize |-> 25,
     totalHits |-> 0, totalStands |-> 0, totalDoubles |-> 0, totalSplits |-> 0]

WonSession(n) ==
    [sessionId |-> n, finalRank |-> 1, finalChips |-> 1500, netProfit |-> 500,
     opponents |-> <<OpponentData("w1", 2, 500)>>]

\* SessionResult records offered to recordSession (session number n)
SessionInputs(n) ==
    { WonSession(n),
      [sessionId |-> n, finalRank |-> 2, finalChips |-> 800, netProfit |-> -200,
       opponents |-> <<OpponentData("w2", 1, 1700), OpponentData("w1", 3, 500)>>] }

\* The in-memory part of LearningCoordinator.recordSession, up to the save.
recordSessionInMemory(st, sessionResult, bobRank, now) ==
    LET sess == trackerRecordSession(st.sessions, sessionResult)
        profs == updateProfiles(st.profiles, sessionResult.opponents, bobRank, now)
        mem == updateExperiences(
                   updateOpponentProfiles(updatePerformance(st.memory, sessionResult), profs),
                   st.experiences, sess)
    IN  [experiences |-> st.experiences, sessions |-> sess, profiles |-> profs, memory |-> mem]

LearnState == [experiences |-> experiences, sessions |-> sessions,
               profiles |-> profiles, memory |-> memory]

\* The memory after recordSession has taken the first k stock sessions
\* (1 <= k <= maxSessions), the hands of hs all recorded during the first one.
StockMemory(k, hs) ==
    [createEmptyMemory(0, TRUE) EXCEPT
        !.totalSessionsPlayed = k,
        !.totalHandsPlayed = k * Len(hs),
        !.performance =
            [@ EXCEPT !.winRateBySession = [i \in 1..k |-> 0],
                      !.avgRankBySession = [i \in 1..k |-> StockSession(i).finalRank],
                      !.avgChipsBySession = [i \in 1..k |-> StockSession(i).finalChips],
                      !.totalTop3 = k,
                      !.totalProfit = k * StockSession(1).netProfit],
        !.recentExperiences = hs,
        !.recentSessions = [i \in 1..k |-> StockSession(i)]]

StockAdjustment(n) ==
    [timestamp |-> n, situation |-> "16_vs_10", adjustment |-> "stand", reason |-> "learned"]

\* A memory with every bounded collection filled to its cap.
FullHands == [n \in 1..maxExperiences |-> StockHand(n)]
FullSessions == maxSessions
FullAdjustments == [n \in 1..maxStrategyAdjustments |-> StockAdjustment(n)]

FullMemory ==
    [StockMemory(FullSessions, FullHands) EXCEPT
        !.strategyAdjustments = FullAdjustments]

FullFile ==
    Written(FullMemory, Len(FullHands) + FullSessions + Len(FullAdjustments))

\* new LearningCoordinator(): a MemoryManager with an empty memory, an empty
\* profiler and an empty tracker.
Constructed(now) ==
    /\ experiences' = <<>>
    /\ sessions' = <<>>
    /\ profiles' = <<>>
    /\ memory' = createEmptyMemory(now, learnEnabled)
    /\ linked' = FALSE
    /\ currentSessionId' = NoSession
    /\ currentSessionHandCount' = 0
    /\ io' = Idle
    /\ outcome' = NoOutcome

LearnInit ==
    /\ profiles = <<>>
    /\ learnEnabled = TRUE
    /\ learningEnabled = TRUE
    /\ memory = createEmptyMemory(0, learnEnabled)
    /\ linked = FALSE
    /\ currentSessionId = NoSession
    /\ currentSessionHandCount = 0
    /\ file = Missing
    /\ io = Idle
    /\ outcome = NoOutcome
    /\ adjustmentsAdded = 0
    /\ budget = 0

(***************************************************************************)
(* GameClient: the betting phase.  The client keeps no record of its own   *)
(* bets; every poll decides from what the backend answers.                 *)
(***************************************************************************)
Seats == {"mine", "other", "undefined"}

BetInit ==
    /\ hand_number = 1
    /\ acceptedBet = 0
    /\ stateBet = 0
    /\ turn = "undefined"
    /\ placeBetRequests = 0
    /\ betsOverridden = 0
    /\ waitedForTurn = FALSE

\* checkBetHistory: the confirmed bet when the backend answers the request,
\* 0 when the request fails or the backend does not know the action.
checkBetHistory(answered) == IF answered THEN acceptedBet ELSE 0

\* handleBettingPhase without the turn check
betGuardsPass_ignoresTurn(found, confirmedBet) ==
    /\ found
    /\ ~(confirmedBet > 0)
    /\ ~(stateBet > 0)

\* handleBettingPhase reaches placeBet
betGuardsPass(found, confirmedBet) ==
    /\ found
    /\ turn \in {"undefined", "mine"}
    /\ ~(confirmedBet > 0)
    /\ ~(stateBet > 0)

\* One poll that finds the betting phase: handleBettingPhase as a whole.
\* found: Bob's player state is in the snapshot; answered: the bet-history
\* request got its answer; accepted: the backend took the place_bet request.
HandleBettingPhase ==
    /\ \E found \in BOOLEAN, answered \in BOOLEAN, accepted \in BOOLEAN, chips \in ChipStacks :
        /\ IF betGuardsPass(found, checkBetHistory(answered))
           THEN /\ placeBetRequests < MaxBetRequests
                /\ placeBetRequests' = placeBetRequests + 1
                /\ betsOverridden' = IF acceptedBet > 0 THEN betsOverridden + 1
                                     ELSE betsOverridden
                /\ acceptedBet' = IF accepted THEN getBet(Counter, chips) ELSE acceptedBet
           ELSE UNCHANGED <<placeBetRequests, betsOverridden, acceptedBet>>
        /\ waitedForTurn' = (waitedForTurn \/ (found /\ turn = "other"))
    /\ UNCHANGED <<hand_number, stateBet, turn>>

\* The backend brings the snapshot it serves up to date.
BackendRefreshesState ==
    /\ stateBet # acceptedBet
    /\ stateBet' = acceptedBet
    /\ UNCHANGED <<hand_number, acceptedBet, turn, placeBetRequests, betsOverridden,
                   waitedForTurn>>

\* The backend moves the betting turn.
BackendMovesTurn ==
    /\ \E seat \in Seats \ {turn} : turn' = seat
    /\ UNCHANGED <<hand_number, acceptedBet, stateBet, placeBetRequests, betsOverridden,
                   waitedForTurn>>

\* The hand is played out and the next hand's betting phase opens.
BackendNextHand ==
    /\ hand_number < MaxHands
    /\ hand_number' = hand_number + 1
    /\ acceptedBet' = 0
    /\ stateBet' = 0
    /\ placeBetRequests' = 0
    /\ UNCHANGED <<turn, betsOverridden, waitedForTurn>>

(***************************************************************************)
(* SessionMonitor.  start() runs one loop: checkSessions visits the        *)
(* fetched sessions in order and awaits play() of the client it starts.    *)
(***************************************************************************)
NoClient == "null"

SessionIds == {"s1", "s2"}

\* LobbySession: what checkSessions reads of it
LobbySessions ==
    [id : SessionIds, status : {"waiting", "in_progress", "completed"}, current_players : {1, 2}]

LobbyAnswers == SeqsUpTo(LobbySessions, MaxLobby)

MonitorInit ==
    /\ isRunning = FALSE
    /\ activeGameClient = NoClient
    /\ registeredSessions = {}
    /\ monitorPc = "stopped"
    /\ lobby = <<>>
    /\ clientsPlaying = 0
    /\ reRegistered = FALSE
    /\ feesPaid = [id \in SessionIds |-> 0]

\* "Skip if already registered for this session" with every id taken as new
alreadyRegistered_never(id) == FALSE

\* this.registeredSessions.has(session.id)
alreadyRegistered(id) == id \in registeredSessions

\* this.activeGameClient = new GameClient(...); await this.activeGameClient.play()
startGameClient(id) ==
    /\ activeGameClient' = id
    /\ clientsPlaying' = clientsPlaying + 1
    /\ monitorPc' = "playing"

skipSession ==
    UNCHANGED <<activeGameClient, registeredSessions, monitorPc, clientsPlaying, reRegistered,
                feesPaid>>

\* SessionMonitor.registerForSession up to the await of play().  hasFunds:
\* the answer of hasSufficientBalance; paid: payEntryFee returns a signature
\* and does not raise; registered: the answer of callRegisterAPI.
registerForSession(session, hasFunds, paid, registered) ==
    IF ~hasFunds \/ ~paid THEN skipSession
    ELSE /\ feesPaid[session.id] < MaxFees
         /\ feesPaid' = [feesPaid EXCEPT ![session.id] = @ + 1]
         /\ IF registered
            THEN /\ reRegistered' = (reRegistered \/ session.id \in registeredSessions)
                 /\ registeredSessions' = registeredSessions \cup {session.id}
                 /\ startGameClient(session.id)
            ELSE UNCHANGED <<activeGameClient, registeredSessions, monitorPc, clientsPlaying,
                             reRegistered>>

\* SessionMonitor.start, up to the first checkSessions
MonitorStart ==
    /\ monitorPc = "stopped"
    /\ ~isRunning
    /\ isRunning' = TRUE
    /\ monitorPc' = "sleeping"
    /\ UNCHANGED <<activeGameClient, registeredSessions, lobby, clientsPlaying, reRegistered, feesPaid>>

\* SessionMonitor.stop, called by the signal handler at any moment
MonitorStop ==
    /\ isRunning
    /\ isRunning' = FALSE
    /\ UNCHANGED <<activeGameClient, registeredSessions, monitorPc, lobby, clientsPlaying,
                   reRegistered, feesPaid>>

\* The loop of start() wakes up: it ends when stopped, else checkSessions
\* fetches the lobby.
MonitorWakes ==
    /\ monitorPc = "sleeping"
    /\ IF isRunning
       THEN \E answer \in LobbyAnswers : lobby' = answer /\ monitorPc' = "checking"
       ELSE lobby' = lobby /\ monitorPc' = "stopped"
    /\ UNCHANGED <<isRunning, activeGameClient, registeredSessions, clientsPlaying, reRegistered, feesPaid>>

\* One pass of the  for (const session of sessions)  loop of checkSessions,
\* registerForSession included, up to the await of play().
\* isBobInSession: the answer of checkIfBobInSession.
MonitorVisitsSession ==
    /\ monitorPc = "checking"
    /\ lobby # <<>>
    /\ lobby' = Tail(lobby)
    /\ LET session == Head(lobby)
       IN  \E isBobInSession \in BOOLEAN, hasFunds \in BOOLEAN, paid \in BOOLEAN,
              registered \in BOOLEAN :
            IF activeGameClient # NoClient THEN skipSession
            ELSE IF session.status = "in_progress" /\ isBobInSession
            THEN /\ startGameClient(session.id)
                 /\ UNCHANGED <<registeredSessions, reRegistered, feesPaid>>
            ELSE IF session.status # "waiting" THEN skipSession
            ELSE IF alreadyRegistered(session.id) THEN skipSession
            ELSE IF session.current_players = 1
            THEN registerForSession(session, hasFunds, paid, registered)
            ELSE skipSession
    /\ UNCHANGED isRunning

\* play() returns: "Session completed - reset", and the loop goes on with
\* the rest of the fetched list.
MonitorPlayReturns ==
    /\ monitorPc = "playing"
    /\ clientsPlaying' = clientsPlaying - 1
    /\ activeGameClient' = NoClient
    /\ monitorPc' = "checking"
    /\ UNCHANGED <<isRunning, registeredSessions, lobby, reRegistered, feesPaid>>

\* The fetched list is exhausted: checkSessions returns and start() sleeps.
MonitorSleeps ==
    /\ monitorPc = "checking"
    /\ lobby = <<>>
    /\ monitorPc' = "sleeping"
    /\ UNCHANGED <<isRunning, activeGameClient, registeredSessions, lobby, clientsPlaying,
                   reRegistered, feesPaid>>

(***************************************************************************)
(* The table in the action phase: the backend deals a hand, Bob's hits add *)
(* cards to it, and every poll on Bob's turn shows all of it to            *)
(* handleActionPhase.                                                      *)
(***************************************************************************)
TableInit ==
    /\ table = [hand_number |-> 0, dealer_hand |-> <<>>, cards |-> <<>>,
                dealerSeen |-> FALSE, cardsSeen |-> 0]
    /\ shown = <<>>

\* The backend deals the next hand.
TableDealsHand ==
    /\ table.hand_number < MaxTableHands
    /\ \E dealerHand \in PollDealerHands, myCards \in PollHands :
         table' = [hand_number |-> table.hand_number + 1, dealer_hand |-> dealerHand,
                   cards |-> myCards, dealerSeen |-> FALSE, cardsSeen |-> 0]
    /\ UNCHANGED <<shown, counterVars>>

\* Bob's hit is answered with one more card.
TableDealsCard ==
    /\ table.hand_number > 0
    /\ Len(table.cards) <= MaxHandCards
    /\ \E rank \in PollRanks : table' = [table EXCEPT !.cards = Append(@, rank)]
    /\ UNCHANGED <<shown, counterVars>>

\* A poll of the action phase on Bob's turn: handleActionPhase observes the
\* dealer's upcard and every card of Bob's hand.
TablePoll ==
    /\ table.hand_number > 0
    /\ cardsDealt + Len(handleActionPhaseCards(table.dealer_hand, table.cards)) <= MaxCounted
    /\ HandleActionPhaseObserve(table.dealer_hand, table.cards)
    /\ Record(handleActionPhaseCards(table.dealer_hand, table.cards))
    /\ shown' = shown
                 \o (IF Len(table.dealer_hand) > 0 /\ ~table.dealerSeen
                     THEN <<table.dealer_hand[1]>> ELSE <<>>)
                 \o SubSeq(table.cards, table.cardsSeen + 1, Len(table.cards))
    /\ table' = [table EXCEPT !.dealerSeen = Len(table.dealer_hand) > 0,
                              !.cardsSeen = Len(table.cards)]

(***************************************************************************)
(* GameClient.play: the game loop and the completion of the session.       *)
(***************************************************************************)
PlayInit ==
    /\ playPc = "playing"
    /\ currentHandNumber = 0
    /\ actionsExecuted = 0
    /\ pollBackoff = Int2Rat(1)
    /\ lastHandNumber = 0
    /\ samePhaseCount = 0
    /\ stuckMinutes = 0
    /\ lastPoll = "none"
    /\ TableInit

\* GameClient.handleActionPhase on a polled state of the action phase where
\* it is Bob's turn.  found: Bob's player state is in the polled state.  With
\* an empty dealer_hand the read of dealer_hand[0].rank raises after the cards
\* were observed, and the game loop goes on.
HandleActionPhase ==
    /\ playPc = "playing"
    /\ actionsExecuted < MaxActions
    /\ \E found \in BOOLEAN, dealerHand \in PollDealerHands, myCards \in PollHands :
        IF ~found
        THEN UNCHANGED <<runningCount, cardsDealt, enabled, currentHandNumber, actionsExecuted>>
        ELSE /\ cardsDealt + Len(handleActionPhaseCards(dealerHand, myCards))
                    <= MaxActions * (MaxHandCards + 1)
             /\ HandleActionPhaseObserve(dealerHand, myCards)
             /\ IF Len(dealerHand) = 0
                THEN UNCHANGED <<currentHandNumber, actionsExecuted>>
                ELSE /\ actionsExecuted' = actionsExecuted + 1
                     /\ currentHandNumber' = IF learnEnabled THEN currentHandNumber + 1
                                             ELSE currentHandNumber
    /\ UNCHANGED <<playPc, loopVars, tableVars>>

\* GameClient.handleSessionCompletion up to the answer of fetchSessionResults:
\* without results it returns and play() leaves its loop.
HandleSessionCompletion ==
    /\ playPc = "playing"
    /\ \E fetched \in BOOLEAN : playPc' = IF fetched THEN "completing" ELSE "returned"
    /\ UNCHANGED <<currentHandNumber, actionsExecuted, loopVars, tableVars>>

(***************************************************************************)
(* ExperienceTracker.getLearnedEVAdjustment                                *)
(***************************************************************************)
RECURSIVE sumChipsWon(_)
\* relevantExperiences.reduce((sum, e) => sum + e.chipsWon, 0)
sumChipsWon(list) ==
    IF list = <<>> THEN 0
    ELSE IF Len(list) = 1 THEN list[1].chipsWon
    ELSE LET half == Len(list) \div 2
         IN  sumChipsWon(SubSeq(list, 1, half)) + sumChipsWon(SubSeq(list, half + 1, Len(list)))

\* this.experiences.filter(...) of getLearnedEVAdjustment
relevantExperiences(list, playerTotal, dealerUpcardRank, action) ==
    SelectSeq(list, LAMBDA e : /\ e.playerTotal = playerTotal
                               /\ e.dealerUpcard = dealerUpcardRank
                               /\ e.actionTaken = action)

\* getLearnedEVAdjustment answering from the first matching hand on
getLearnedEVAdjustment_noThreshold(list, playerTotal, dealerUpcardRank, action) ==
    LET relevant == relevantExperiences(list, playerTotal, dealerUpcardRank, action)
    IN  IF Len(relevant) < 1 THEN Int2Rat(0)
        ELSE RatMax(Rat(-1, 5),
                    RatMin(Rat(1, 5),
                           RatDivInt(Rat(sumChipsWon(relevant), Len(relevant)), 100)))

\* ExperienceTracker.getLearnedEVAdjustment
getLearnedEVAdjustment(list, playerTotal, dealerUpcardRank, action) ==
    LET relevant == relevantExperiences(list, playerTotal, dealerUpcardRank, action)
    IN  IF Len(relevant) < 5 THEN Int2Rat(0)
        ELSE RatMax(Rat(-1, 5),
                    RatMin(Rat(1, 5),
                           RatDivInt(Rat(sumChipsWon(relevant), Len(relevant)), 100)))

\* GameExperience records of hand n: hard 16 against a 7, hit and lost or
\* won, or stood and won
LearnedHandInputs(n) ==
    { [sessionId |-> 1, handNumber |-> n, playerTotal |-> 16, dealerUpcard |-> "7",
       actionTaken |-> "hit", betSize |-> 25, handResult |-> "loss", chipsWon |-> -25],
      [sessionId |-> 1, handNumber |-> n, playerTotal |-> 16, dealerUpcard |-> "7",
       actionTaken |-> "hit", betSize |-> 25, handResult |-> "win", chipsWon |-> 25],
      [sessionId |-> 1, handNumber |-> n, playerTotal |-> 16, dealerUpcard |-> "7",
       actionTaken |-> "stand", betSize |-> 50, handResult |-> "win", chipsWon |-> 50] }

\* ExperienceTracker.recordHand with one of these hands
TrackerRecordLearnedHand ==
    \E experience \in LearnedHandInputs(handsRecorded + 1) :
        /\ handsRecorded < MaxLearnedHands
        /\ experiences' = recordHand(experiences, experience)
        /\ handsRecorded' = handsRecorded + 1
        /\ UNCHANGED <<sessions, sessionsRecorded>>

(***************************************************************************)
(* OptimalStrategy: expected values and getDecision.  Expected values are  *)
(* kept in millionths of a bet; the tables of the source have four         *)
(* decimals and a card probability is a multiple of 1/416, so a product    *)
(* prob * ev is rounded to the nearest millionth.                          *)
(***************************************************************************)
\* doubleEV = -Infinity, splitEV = -Infinity
NegInfinity == -2000000000

\* a + b, a - b of JavaScript numbers where a may be -Infinity and b is finite
evAdd(a, b) == IF a = NegInfinity THEN NegInfinity ELSE a + b

RoundDiv(a, b) == (2 * a + b) \div (2 * b)

\* OptimalStrategy.getRankValue
getRankValue(rank) ==
    IF rank = "A" THEN 11
    ELSE IF rank \in {"K", "Q", "J"} THEN 10
    ELSE CASE rank = "2" -> 2 [] rank = "3" -> 3 [] rank = "4" -> 4 [] rank = "5" -> 5
           [] rank = "6" -> 6 [] rank = "7" -> 7 [] rank = "8" -> 8 [] rank = "9" -> 9
           [] rank = "10" -> 10

\* OptimalStrategy.getDealerFinalDistribution, in ten-thousandths:
\* <<P(17), P(18), P(19), P(20), P(21), P(bust)>>
getDealerFinalDistribution(dealerUpcard) ==
    CASE dealerUpcard = 2 -> <<1389, 1311, 1310, 1176, 775, 3539>>
      [] dealerUpcard = 3 -> <<1299, 1299, 1299, 1164, 693, 3745>>
      [] dealerUpcard = 4 -> <<1199, 1199, 1199, 1152, 1050, 4002>>
      [] dealerUpcard = 5 -> <<1199, 1169, 1169, 1070, 1111, 4282>>
      [] dealerUpcard = 6 -> <<1654, 1061, 1061, 1061, 958, 4205>>
      [] dealerUpcard = 7 -> <<3691, 1378, 790, 790, 732, 2619>>
      [] dealerUpcard = 8 -> <<1289, 3594, 1289, 727, 718, 2383>>
      [] dealerUpcard = 9 -> <<1189, 1060, 3481, 1189, 780, 2301>>
      [] dealerUpcard = 10 -> <<1102, 1102, 1102, 3438, 1127, 2129>>
      [] dealerUpcard = 11 -> <<1304, 1304, 1304, 3045, 1865, 1178>>
      [] OTHER -> <<1102, 1102, 1102, 3438, 1127, 2129>>

\* OptimalStrategy.getDealerBustProbability, in ten-thousandths
getDealerBustProbability(dealerUpcard) ==
    CASE dealerUpcard = 2 -> 3539
      [] dealerUpcard = 3 -> 3745
      [] dealerUpcard = 4 -> 4002
      [] dealerUpcard = 5 -> 4282
      [] dealerUpcard = 6 -> 4205
      [] dealerUpcard = 7 -> 2619
      [] dealerUpcard = 8 -> 2383
      [] dealerUpcard = 9 -> 2301
      [] dealerUpcard = 10 -> 2129
      [] dealerUpcard = 11 -> 1178
      [] OTHER -> 2500

RECURSIVE standSum(_, _, _)
\* the  for (dealerTotal = 17; dealerTotal <= 21; dealerTotal++)  loop
standSum(dealerDist, playerTotal, dealerTotal) ==
    IF dealerTotal > 21 THEN 0
    ELSE LET prob == dealerDist[dealerTotal - 16]
         IN  (IF dealerTotal < playerTotal THEN prob
              ELSE IF dealerTotal = playerTotal THEN 0
              ELSE -prob)
             + standSum(dealerDist, playerTotal, dealerTotal + 1)

\* calculateStandEV with a bust hand valued like a hand of 21
calculateStandEV_bustIsDealerBust(playerTotal, dealerUpcard) ==
    LET dealerDist == getDealerFinalDistribution(dealerUpcard)
    IN  IF playerTotal >= 21 THEN 100 * dealerDist[6]
        ELSE 100 * (dealerDist[6] + standSum(dealerDist, playerTotal, 17))

\* OptimalStrategy.calculateStandEV
calculateStandEV(playerTotal, dealerUpcard) ==
    IF playerTotal > 21 THEN -1000000
    ELSE LET dealerDist == getDealerFinalDistribution(dealerUpcard)
         IN  IF playerTotal = 21 THEN 100 * dealerDist[6]
             ELSE 100 * (dealerDist[6] + standSum(dealerDist, playerTotal, 17))

\* cardProbs[cardValue], in 416ths
cardProbs(cardValue) == IF cardValue = 10 THEN 128 ELSE 32

\* cardProbs[cardValue] * ev
cardProb(cardValue, ev) ==
    RoundDiv(cardProbs(cardValue) * ev, 416)

\* calculateHitEV taken to be the EV of standing on the same total
calculateHitEV_standsPat(playerTotal, dealerUpcard, isSoft, depth) ==
    calculateStandEV(playerTotal, dealerUpcard)

RECURSIVE calculateHitEV(_, _, _, _)
RECURSIVE hitSum(_, _, _, _, _)
\* the loop of calculateHitEV over the entries of cardProbs from cardValue on
hitSum(playerTotal, dealerUpcard, isSoft, depth, cardValue) ==
    IF cardValue > 10 THEN 0
    ELSE LET drawn == hitDraw(playerTotal, isSoft, cardValue)
             term == IF drawn.newTotal > 21 THEN cardProb(cardValue, -1000000)
                     ELSE IF drawn.newTotal = 21
                     THEN cardProb(cardValue, calculateStandEV(21, dealerUpcard))
                     ELSE cardProb(cardValue,
                                   Max(calculateStandEV(drawn.newTotal, dealerUpcard),
                                       calculateHitEV(drawn.newTotal, dealerUpcard,
                                                      drawn.newIsSoft, depth + 1)))
         IN  term + hitSum(playerTotal, dealerUpcard, isSoft, depth, cardValue + 1)

\* OptimalStrategy.calculateHitEV
calculateHitEV(playerTotal, dealerUpcard, isSoft, depth) ==
    IF playerTotal > 21 THEN -1000000
    ELSE IF depth > hitDepthLimit THEN calculateStandEV(playerTotal, dealerUpcard)
    ELSE hitSum(playerTotal, dealerUpcard, isSoft, depth, 1)

RECURSIVE doubleSum(_, _, _, _)
doubleSum(playerTotal, dealerUpcard, isSoft, cardValue) ==
    IF cardValue > 10 THEN 0
    ELSE LET t1 == IF cardValue = 1
                   THEN (IF playerTotal + 11 <= 21 THEN playerTotal + 11 ELSE playerTotal + 1)
                   ELSE playerTotal + cardValue
             newTotal == IF isSoft /\ t1 > 21 THEN t1 - 10 ELSE t1
         IN  cardProb(cardValue, 2 * calculateStandEV(newTotal, dealerUpcard))
             + doubleSum(playerTotal, dealerUpcard, isSoft, cardValue + 1)

\* OptimalStrategy.calculateDoubleEV
calculateDoubleEV(playerTotal, dealerUpcard, isSoft) ==
    doubleSum(playerTotal, dealerUpcard, isSoft, 1)

RECURSIVE splitAcesSum(_, _)
splitAcesSum(dealerUpcard, cardValue) ==
    IF cardValue > 10 THEN 0
    ELSE LET total == IF 11 + cardValue > 21 THEN 1 + cardValue ELSE 11 + cardValue
         IN  cardProb(cardValue, calculateStandEV(total, dealerUpcard))
             + splitAcesSum(dealerUpcard, cardValue + 1)

\* OptimalStrategy.calculateSplitEV
calculateSplitEV(pairRank, dealerUpcard) ==
    IF pairRank = "A" THEN 2 * splitAcesSum(dealerUpcard, 1)
    ELSE 2 * calculateHitEV(getRankValue(pairRank), dealerUpcard, FALSE, 0)

\* GameSituation as handleActionPhase builds it; affordable: chips >= bet
Situation(playerHand, playerTotal, isSoft, dealerUpcard, affordable, chipStack) ==
    [playerHand |-> playerHand, playerTotal |-> playerTotal, isSoft |-> isSoft,
     dealerUpcard |-> dealerUpcard, chipStack |-> chipStack,
     canDouble |-> (Len(playerHand) = 2 /\ affordable),
     canSplit |-> (Len(playerHand) = 2 /\ playerHand[1] = playerHand[2] /\ affordable)]

\* Bob's hands with their calculateHandValue: hard and soft, pairs, 21, bust
Hands ==
    { <<<<"10", "6">>, 16, FALSE>>, <<<<"5", "6">>, 11, FALSE>>, <<<<"A", "9">>, 20, TRUE>>,
      <<<<"K", "K">>, 20, FALSE>>, <<<<"9", "9">>, 18, FALSE>>, <<<<"10", "A">>, 21, TRUE>>,
      <<<<"10", "6", "K">>, 26, FALSE>>, <<<<"10", "7", "4">>, 21, FALSE>> }

Situations ==
    { Situation(h[1], h[2], h[3], up, affordable, 100) :
        h \in Hands, up \in {"6", "7", "A"}, affordable \in BOOLEAN }

\* the four EVs with the double and the split EV calculated whatever
\* canDouble and canSplit say
baseEVs_ignoresEligibility(situation) ==
    LET up == getRankValue(situation.dealerUpcard)
    IN  [stand |-> calculateStandEV(situation.playerTotal, up),
         hit |-> calculateHitEV(situation.playerTotal, up, situation.isSoft, 0),
         double |-> calculateDoubleEV(situation.playerTotal, up, situation.isSoft),
         split |-> calculateSplitEV(situation.playerHand[1], up)]

\* getDecision, "Calculate EV for each possible action"
baseEVs(situation) ==
    LET up == getRankValue(situation.dealerUpcard)
    IN  [stand |-> calculateStandEV(situation.playerTotal, up),
         hit |-> calculateHitEV(situation.playerTotal, up, situation.isSoft, 0),
         double |-> IF situation.canDouble
                    THEN calculateDoubleEV(situation.playerTotal, up, situation.isSoft)
                    ELSE NegInfinity,
         split |-> IF /\ situation.canSplit
                      /\ Len(situation.playerHand) = 2
                      /\ situation.playerHand[1] = situation.playerHand[2]
                   THEN calculateSplitEV(situation.playerHand[1], up)
                   ELSE NegInfinity]

\* The expected values of the situations explored, evaluated once.
BaseEVs == [situation \in Situations |-> baseEVs(situation)]

\* const actions = [stand, hit, double, split] with the card counting
\* modifier applied to both the stand and the hit EV, whatever its sign
decisionActions_symmetricModifier(situation, learningAdjustment, c) ==
    LET evs == BaseEVs[situation]
        countModifier == 1000 * getStrategyModifier1000(c)
    IN  << [action |-> "stand", ev |-> evAdd(evs.stand, learningAdjustment) + countModifier],
           [action |-> "hit", ev |-> evAdd(evs.hit, learningAdjustment) + countModifier],
           [action |-> "double", ev |-> evAdd(evs.double, learningAdjustment)],
           [action |-> "split", ev |-> evAdd(evs.split, learningAdjustment)] >>

\* const actions = [stand, hit, double, split] with the learning adjustment
\* added to the stand EV only
decisionActions_adjustsStandOnly(situation, learningAdjustment, c) ==
    LET evs == BaseEVs[situation]
        countModifier == 1000 * getStrategyModifier1000(c)
    IN  << [action |-> "stand",
            ev |-> evAdd(evs.stand, learningAdjustment)
                   + (IF countModifier > 0 THEN countModifier ELSE 0)],
           [action |-> "hit",
            ev |-> evs.hit + (IF countModifier < 0 THEN Abs(countModifier) \div 2 ELSE 0)],
           [action |-> "double", ev |-> evs.double],
           [action |-> "split", ev |-> evs.split] >>

\* const actions = [stand, hit, double, split] with the learning adjustment
\* and the card counting modifier applied
decisionActions(situation, learningAdjustment, c) ==
    LET evs == BaseEVs[situation]
        countModifier == 1000 * getStrategyModifier1000(c)
    IN  << [action |-> "stand",
            ev |-> evAdd(evs.stand, learningAdjustment)
                   + (IF countModifier > 0 THEN countModifier ELSE 0)],
           [action |-> "hit",
            ev |-> evAdd(evs.hit, learningAdjustment)
                   + (IF countModifier < 0 THEN Abs(countModifier) \div 2 ELSE 0)],
           [action |-> "double", ev |-> evAdd(evs.double, learningAdjustment)],
           [action |-> "split", ev |-> evAdd(evs.split, learningAdjustment)] >>

\* The place of a in a list sorted by (a, b) => b.ev - a.ev, taken before the
\* elements it ties with
insertByEV_beforeEqual(sorted, a) ==
    LET before == SelectSeq(sorted, LAMBDA b : b.ev > a.ev)
    IN  before \o <<a>> \o SubSeq(sorted, Len(before) + 1, Len(sorted))

\* The place of a in a list sorted by (a, b) => b.ev - a.ev: the sort is
\* stable, and a comparison of -Infinity with -Infinity (NaN) counts as a tie.
insertByEV(sorted, a) ==
    LET before == SelectSeq(sorted, LAMBDA b : b.ev >= a.ev)
    IN  before \o <<a>> \o SubSeq(sorted, Len(before) + 1, Len(sorted))

RECURSIVE sortByEV(_)
\* actions.sort((a, b) => b.ev - a.ev)
sortByEV(actions) ==
    IF actions = <<>> THEN <<>>
    ELSE insertByEV(sortByEV(SubSeq(actions, 1, Len(actions) - 1)), actions[Len(actions)])

\* the confidence without Math.min and Math.max
confidenceOf_unclamped(bestEV, secondBestEV) ==
    (bestEV - secondBestEV) * 2

\* Math.min(1.0, Math.max(0.0, (bestEV - secondBestEV) / 0.5)), in millionths
confidenceOf(bestEV, secondBestEV) ==
    IF bestEV = NegInfinity /\ secondBestEV = NegInfinity THEN "NaN"
    ELSE IF secondBestEV = NegInfinity THEN 1000000
    ELSE Min(1000000, Max(0, (bestEV - secondBestEV) * 2))

\* OptimalStrategy.getDecision
getDecision(situation, learningAdjustment, c) ==
    LET sorted == sortByEV(decisionActions(situation, learningAdjustment, c))
        bestAction == sorted[1]
        secondBestEV == sorted[2].ev
    IN  [action |-> bestAction.action,
         confidence |-> confidenceOf(bestAction.ev, secondBestEV),
         expectedValue |-> bestAction.ev,
         betSize |-> getBet(c, situation.chipStack)]

\* values of getStrategyAdjustment, in millionths
LearningAdjustments == {-200000, 0, 50000}

NoDecision == [called |-> FALSE]

StrategyInit == lastCall = NoDecision

\* OptimalStrategy.observeCard
StrategyObserveCard ==
    \E rank \in PollRanks :
        /\ ~lastCall.called
        /\ cardsDealt < MaxSeen
        /\ UpdateCount(rank)
        /\ UNCHANGED lastCall

\* getDecision is called and computes its result
StrategyGetDecision ==
    \E situation \in Situations, learningAdjustment \in LearningAdjustments :
        /\ ~lastCall.called
        /\ lastCall' = [called |-> TRUE, situation |-> situation,
                        learningAdjustment |-> learningAdjustment,
                        actions |-> decisionActions(situation, learningAdjustment, Counter),
                        decision |-> getDecision(situation, learningAdjustment, Counter)]
        /\ UNCHANGED counterVars

\* getDecision returns to handleActionPhase
StrategyReturn ==
    /\ lastCall.called
    /\ lastCall' = NoDecision
    /\ UNCHANGED counterVars

(***************************************************************************)
(* LearningCoordinator.adjustDecisionForOpponent.  Wagers are exact        *)
(* rationals: betSize * 1.2 is betSize * 6/5.                              *)
(***************************************************************************)
\* opponentWallets.map(w => this.profiler.getProfile(w)).filter(p => p !== undefined)
RECURSIVE knownOpponents(_, _)
knownOpponents(m, opponentWallets) ==
    IF opponentWallets = <<>> THEN <<>>
    ELSE (IF mapHas(m, Head(opponentWallets)) THEN <<mapGet(m, Head(opponentWallets))>> ELSE <<>>)
         \o knownOpponents(m, Tail(opponentWallets))

\* opponents.reduce((sum, o) => sum + o.stats.skillScore, 0) / opponents.length
RECURSIVE sumSkill(_)
sumSkill(opponents) ==
    IF opponents = <<>> THEN Int2Rat(0)
    ELSE RatAdd(Head(opponents).stats.skillScore, sumSkill(Tail(opponents)))

avgSkill(opponents) == RatDivInt(sumSkill(opponents), Len(opponents))

\* opponents.reduce((sum, o) => sum + o.stats.aggressionScore, 0) / opponents.length
RECURSIVE sumAggression(_)
sumAggression(opponents) ==
    IF opponents = <<>> THEN Int2Rat(0)
    ELSE RatAdd(Head(opponents).stats.aggressionScore, sumAggression(Tail(opponents)))

avgAggression(opponents) == RatDivInt(sumAggression(opponents), Len(opponents))

\* a wager that JavaScript takes as true: any number but 0
truthy(betSize) == betSize.n # 0

adjustDecisionForOpponent(decision, opponentWallets, m, en) ==
    IF ~en \/ opponentWallets = <<>> THEN decision
    ELSE LET opponents == knownOpponents(m, opponentWallets)
         IN  IF opponents = <<>> THEN decision
             ELSE IF truthy(decision.betSize) /\ RatLess(avgSkill(opponents), Rat(4, 10))
                  THEN [decision EXCEPT
                            !.betSize = RatMin(RatMul(decision.betSize, Rat(12, 10)), Int2Rat(100))]
             ELSE IF RatLess(Rat(7, 10), avgAggression(opponents))
                  THEN [decision EXCEPT
                            !.betSize = IF truthy(decision.betSize) THEN decision.betSize
                                        ELSE Int2Rat(25)]
             ELSE decision

\* What the profiler has seen of the opponents before the hand: sessions
\* given to updateProfile and plays given to updateWithHandObservation.
ProfilerSession(w, sessionData, bobRank) ==
    [kind |-> "session", w |-> w, sessionData |-> sessionData, bobRank |-> bobRank]

ProfilerHand(w, situation, action) ==
    [kind |-> "hand", w |-> w, observation |-> [situation |-> situation, action |-> action]]

HighBettor(w) == ProfilerSession(w, SessionData(w, 100, 1, 1500, 0, 0, 4, 0), 2)
LowBettor(w) == ProfilerSession(w, SessionData(w, 25, 4, 0, 6, 4, 0, 0), 1)

OpponentHistories ==
    { <<>>,
      <<HighBettor("w1")>>,
      <<LowBettor("w1")>>,
      <<HighBettor("w1"), ProfilerHand("w1", "TT", "split"), HighBettor("w1")>>,
      <<LowBettor("w1"), ProfilerHand("w1", "TT", "split"), LowBettor("w1")>>,
      <<HighBettor("w1"), LowBettor("w2")>>,
      <<HighBettor("w1"), ProfilerHand("w1", "TT", "split"), HighBettor("w1"), LowBettor("w2")>> }

RECURSIVE profilesAfter(_, _, _)
profilesAfter(m, history, now) ==
    IF history = <<>> THEN m
    ELSE LET h == Head(history)
             m1 == IF h.kind = "session"
                   THEN updateProfile(m, h.w, h.sessionData, h.bobRank, now)
                   ELSE updateWithHandObservation(m, h.w, h.observation)
         IN  profilesAfter(m1, Tail(history), now + 1)

\* The wallets of the other players at the table, as handleActionPhase
\* collects them from player_states.
OpponentWalletLists == { <<>>, <<"w1">>, <<"w2">>, <<"w1", "w2">> }

\* Bob's chips during the action phase; 0 after a bet of the whole stack.
ActionPhaseChips == {0, 50, 1000}

\* The decisions handleActionPhase passes on: getDecision's result, whose
\* betSize is getBet(situation.chipStack).
ActionPhaseSituations ==
    { s \in Situations : s.playerTotal \in {16, 20} /\ s.dealerUpcard = "7" /\ ~s.canDouble }

decisionWithChips(situation, chipStack, c) ==
    [getDecision(situation, 0, c) EXCEPT !.betSize = Int2Rat(getBet(c, chipStack))]

\* decision = this.learning.adjustDecisionForOpponent(decision, opponentWallets)
LearningAdjustDecisionForOpponent ==
    \E situation \in ActionPhaseSituations, chipStack \in ActionPhaseChips,
       opponentWallets \in OpponentWalletLists :
        LET decision == decisionWithChips(situation, chipStack, Counter)
        IN  /\ ~lastCall.called
            /\ lastCall' = [called |-> TRUE, op |-> "adjustDecisionForOpponent",
                            decision |-> decision, opponentWallets |-> opponentWallets,
                            adjusted |-> adjustDecisionForOpponent(decision, opponentWallets,
                                                                   profiles, learnEnabled)]

\* LearningCoordinator.getStrategyAdjustment, a Rat
getStrategyAdjustment(en, list, playerTotal, dealerUpcardRank, action) ==
    IF ~en THEN Int2Rat(0)
    ELSE getLearnedEVAdjustment(list, playerTotal, dealerUpcardRank, action)

\* learningAdjustment = this.learning.getStrategyAdjustment(playerTotal, rank, 'hit')
LearningGetStrategyAdjustment ==
    \E playerTotal \in {11, 16}, dealerUpcardRank \in {"6", "7"} :
        /\ ~lastCall.called
        /\ lastCall' = [called |-> TRUE, op |-> "getStrategyAdjustment",
                        adjustment |-> getStrategyAdjustment(learnEnabled, experiences,
                                                             playerTotal, dealerUpcardRank, "hit")]

\* the value a coordinator call returned is used and dropped
LearningAdjustReturns ==
    /\ lastCall.called
    /\ lastCall' = NoDecision

(***************************************************************************)
(* MemoryManager: learning effectiveness                                   *)
(***************************************************************************)
\* MemoryManager.getLearningEffectiveness
getLearningEffectiveness(mem) ==
    LET perf == mem.performance
        improvementRate == RatSub(perf.winRateAfterLearning, perf.winRateBeforeLearning)
    IN  IF mem.totalSessionsPlayed < 20
        THEN [improving |-> FALSE, improvementRate |-> Int2Rat(0),
              sessionsPlayed |-> mem.totalSessionsPlayed]
        ELSE [improving |-> RatLess(Rat(5, 100), improvementRate),
              improvementRate |-> improvementRate,
              sessionsPlayed |-> mem.totalSessionsPlayed]

\* this.memory.updatePerformance(sessionResult) of recordSession, for a
\* session Bob won or finished second
MemoryUpdatePerformance ==
    /\ ~lastCall.called
    /\ budget > 0
    /\ \E sessionResult \in SessionInputs(sessionsRecorded + 1) :
            memory' = updatePerformance(memory, sessionResult)
    /\ sessionsRecorded' = sessionsRecorded + 1
    /\ budget' = budget - 1
    /\ UNCHANGED lastCall

\* this.memory.getLearningEffectiveness() of init and getStats
MemoryGetLearningEffectiveness ==
    /\ ~lastCall.called
    /\ lastCall' = [called |-> TRUE, op |-> "getLearningEffectiveness",
                    effectiveness |-> getLearningEffectiveness(memory)]
    /\ UNCHANGED <<memory, sessionsRecorded, budget>>

\* the effectiveness report is logged and dropped
MemoryEffectivenessReturns ==
    /\ lastCall.called
    /\ lastCall' = NoDecision
    /\ UNCHANGED <<memory, sessionsRecorded, budget>>

(***************************************************************************)
(* GameClient.play: waitForSessionStart and the passes of the game loop.   *)
(* The handlers of the betting and action phases appear by how they end:   *)
(* they return or they raise.  Time is read in whole minutes.              *)
(***************************************************************************)
NoState == [phase |-> "none", hand_number |-> 0]

\* gameState.phase is any string; "other" is a phase play() has no branch for
Phases == {"registration", "betting", "action", "other", "completed"}

\* what fetchGameState answers: no state, or a phase and a hand number
PolledStates ==
    {NoState} \cup [phase : Phases, hand_number : 1..MaxLoopHands]

\* isSessionStuck: BETTING_TIMEOUT and ACTION_TIMEOUT in minutes, and the
\* numbers of polls past the timeout that are tolerated
bettingTimeoutMinutes == 5
actionTimeoutMinutes == 3
bettingStuckPolls == 30
actionStuckPolls == 20

\* this.pollBackoff = Math.min(this.pollBackoff * 1.5, 5)
increaseBackoff(backoff) == RatMin(RatMul(backoff, Rat(15, 10)), Int2Rat(5))

\* GameClient.isSessionStuck: its result and the fields it leaves behind
isSessionStuck(gameState, last, count, minutes) ==
    IF gameState.hand_number # last
    THEN [stuck |-> FALSE, lastHandNumber |-> gameState.hand_number,
          samePhaseCount |-> 0, stuckMinutes |-> 0]
    ELSE LET betting == gameState.phase = "betting" /\ minutes > bettingTimeoutMinutes
             action == gameState.phase = "action" /\ minutes > actionTimeoutMinutes
             c1 == IF betting THEN count + 1 ELSE count
         IN  IF betting /\ c1 > bettingStuckPolls
             THEN [stuck |-> TRUE, lastHandNumber |-> last, samePhaseCount |-> c1,
                   stuckMinutes |-> minutes]
             ELSE LET c2 == IF action THEN c1 + 1 ELSE c1
                  IN  [stuck |-> action /\ c2 > actionStuckPolls, lastHandNumber |-> last,
                       samePhaseCount |-> c2, stuckMinutes |-> minutes]

\* One pass of waitForSessionStart's loop
WaitForSessionStart ==
    /\ playPc = "waiting"
    /\ \E gameState \in PolledStates :
         playPc' = IF gameState # NoState /\ gameState.phase # "registration"
                   THEN "playing" ELSE "waiting"
    /\ UNCHANGED <<currentHandNumber, actionsExecuted, loopVars, tableVars, sessionsRecorded>>

\* One pass of play()'s game loop.  handlerRaises: the handler of the
\* betting or action phase raises; fetched: fetchSessionResults answers.
GameLoopPass ==
    /\ playPc = "playing"
    /\ \E gameState \in PolledStates, handlerRaises \in BOOLEAN, fetched \in BOOLEAN :
        IF gameState = NoState
        THEN /\ pollBackoff' = increaseBackoff(pollBackoff)
             /\ lastPoll' = "noState"
             /\ UNCHANGED <<playPc, lastHandNumber, samePhaseCount, stuckMinutes,
                            sessionsRecorded>>
        ELSE LET r == isSessionStuck(gameState, lastHandNumber, samePhaseCount, stuckMinutes)
                 raised == ~r.stuck /\ gameState.phase \in {"betting", "action"}
                           /\ handlerRaises
                 completed == ~r.stuck /\ gameState.phase = "completed"
             IN  /\ lastHandNumber' = r.lastHandNumber
                 /\ samePhaseCount' = r.samePhaseCount
                 /\ stuckMinutes' = r.stuckMinutes
                 /\ pollBackoff' = IF raised THEN increaseBackoff(Int2Rat(1)) ELSE Int2Rat(1)
                 /\ playPc' = IF r.stuck \/ completed THEN "returned" ELSE "playing"
                 /\ sessionsRecorded' = IF completed /\ fetched THEN sessionsRecorded + 1
                                        ELSE sessionsRecorded
                 /\ lastPoll' = IF r.stuck THEN "stuck"
                                ELSE IF completed THEN "completed"
                                ELSE IF raised THEN "raised" ELSE "handled"
    /\ UNCHANGED <<currentHandNumber, actionsExecuted, tableVars>>

\* A minute passes while play() sleeps between two polls.
MinutePasses ==
    /\ playPc \in {"waiting", "playing"}
    /\ stuckMinutes < MaxStuckMinutes
    /\ stuckMinutes' = stuckMinutes + 1
    /\ UNCHANGED <<playPc, currentHandNumber, actionsExecuted, pollBackoff, lastHandNumber,
                   samePhaseCount, lastPoll, tableVars, sessionsRecorded>>

(***************************************************************************)
(* SpecHitEV: the invocations of calculateHitEV.                           *)
(***************************************************************************)
InitHitEV ==
    /\ CounterInit
    /\ enabled = TRUE
    /\ HitEVInit
    /\ TrackerInit
    /\ LearnInit
    /\ ProfilerInit
    /\ BetInit
    /\ MonitorInit
    /\ PlayInit
    /\ StrategyInit

NextHitEV ==
    \/ HitEVCall
    \/ HitEVRecurse
    \/ HitEVReturn

SpecHitEV == InitHitEV /\ [][NextHitEV]_vars

(***************************************************************************)
(* SpecTracker: an ExperienceTracker filled from empty.                    *)
(***************************************************************************)
otherThanTracker == <<counterVars, hitEV, learnVars, profilerVars, betVars, monitorVars, playVars, lastCall>>

TrackerRecordHand ==
    /\ handsRecorded < maxExperiences + MaxOverflow
    /\ experiences' = recordHand(experiences, StockHand(handsRecorded + 1))
    /\ handsRecorded' = handsRecorded + 1
    /\ UNCHANGED <<sessions, sessionsRecorded, otherThanTracker>>

TrackerRecordSession ==
    /\ sessionsRecorded < maxSessions + MaxOverflow
    /\ sessions' = trackerRecordSession(sessions, StockSession(sessionsRecorded + 1))
    /\ sessionsRecorded' = sessionsRecorded + 1
    /\ UNCHANGED <<experiences, handsRecorded, otherThanTracker>>

InitTracker ==
    /\ CounterInit
    /\ enabled = TRUE
    /\ HitEVInit
    /\ TrackerInit
    /\ LearnInit
    /\ ProfilerInit
    /\ BetInit
    /\ MonitorInit
    /\ PlayInit
    /\ StrategyInit

NextTracker ==
    \/ TrackerRecordHand
    \/ TrackerRecordSession

SpecTracker == InitTracker /\ [][NextTracker]_vars

(***************************************************************************)
(* SpecCount: the counter with the history of counted cards.               *)
(***************************************************************************)
CountObserve ==
    \E rank \in Ranks :
        /\ Len(seen) < MaxSeen
        /\ UpdateCount(rank)
        /\ Record(<<rank>>)
        /\ UNCHANGED otherThanCounter

CountPoll ==
    \E dealerHand \in PollDealerHands, myCards \in PollHands :
        /\ Len(seen) + Len(handleActionPhaseCards(dealerHand, myCards)) <= MaxSeen
        /\ HandleActionPhaseObserve(dealerHand, myCards)
        /\ Record(handleActionPhaseCards(dealerHand, myCards))
        /\ UNCHANGED otherThanCounter

CountReset ==
    /\ Reset
    /\ seen' = <<>>
    /\ UNCHANGED otherThanCounter

CountSetEnabled ==
    \E e \in BOOLEAN :
        /\ SetEnabled(e)
        /\ UNCHANGED <<seen, otherThanCounter>>

InitCount == CounterInit /\ HitEVInit /\ TrackerInit /\ LearnInit /\ ProfilerInit /\ BetInit /\ MonitorInit /\ PlayInit /\ StrategyInit

NextCount ==
    \/ CountObserve
    \/ CountPoll
    \/ CountReset
    \/ CountSetEnabled

SpecCount == InitCount /\ [][NextCount]_vars

(***************************************************************************)
(* SpecShoe: the counter over a whole shoe, without the history.           *)
(***************************************************************************)
ShoeObserve ==
    \E rank \in Ranks :
        /\ cardsDealt < MaxDealt
        /\ UpdateCount(rank)
        /\ UNCHANGED <<seen, otherThanCounter>>

ShoePoll ==
    \E dealerHand \in PollDealerHands, myCards \in PollHands :
        /\ cardsDealt + Len(handleActionPhaseCards(dealerHand, myCards)) <= MaxDealt
        /\ HandleActionPhaseObserve(dealerHand, myCards)
        /\ UNCHANGED <<seen, otherThanCounter>>

ShoeReset ==
    /\ Reset
    /\ UNCHANGED <<seen, otherThanCounter>>

ShoeSetEnabled ==
    \E e \in BOOLEAN :
        /\ SetEnabled(e)
        /\ UNCHANGED <<seen, otherThanCounter>>

InitShoe == CounterInit /\ HitEVInit /\ TrackerInit /\ LearnInit /\ ProfilerInit /\ BetInit /\ MonitorInit /\ PlayInit /\ StrategyInit

NextShoe ==
    \/ ShoeObserve
    \/ ShoePoll
    \/ ShoeReset
    \/ ShoeSetEnabled

SpecShoe == InitShoe /\ [][NextShoe]_vars

(***************************************************************************)
(* SpecLearn: one process after another running a LearningCoordinator over *)
(* the same memory file.  The first process finds no file, or the file     *)
(* left by earlier processes that recorded the stock history.              *)
(***************************************************************************)
otherThanLearn == <<counterVars, hitEV, profilerVars, betVars, monitorVars, playVars, lastCall>>

\* LearningCoordinator.init
LearningInit ==
    /\ io = Idle
    /\ IF ~learnEnabled
       THEN /\ outcome' = Done("init")
            /\ UNCHANGED <<experiences, sessions, profiles, memory, linked>>
       ELSE LET r == load(memory, file)
            IN  /\ memory' = r.memory
                /\ profiles' = r.memory.opponentProfiles
                /\ experiences' = r.memory.recentExperiences
                /\ sessions' = r.memory.recentSessions
                /\ linked' = TRUE
                /\ outcome' = [op |-> "init", raised |-> r.raised,
                               rejected |-> FALSE, saw |-> r.saw]
    /\ UNCHANGED <<currentSessionId, currentSessionHandCount, learnEnabled, learningEnabled, file, io,
                   adjustmentsAdded, budget, handsRecorded, sessionsRecorded,
                   otherThanLearn>>

\* LearningCoordinator.startSession
StartSession ==
    /\ io = Idle
    /\ currentSessionId' = sessionsRecorded + 1
    /\ currentSessionHandCount' = 0
    /\ UNCHANGED <<experiences, sessions, profiles, memory, linked, learnEnabled, learningEnabled, file,
                   io, outcome, adjustmentsAdded, budget, handsRecorded, sessionsRecorded,
                   otherThanLearn>>

\* LearningCoordinator.recordHand
RecordHand ==
    /\ io = Idle
    /\ budget > 0
    /\ \E e \in HandInputs(handsRecorded + 1,
                           IF currentSessionId = NoSession THEN sessionsRecorded + 1
                           ELSE currentSessionId) :
        IF ~learnEnabled \/ currentSessionId = NoSession
        THEN UNCHANGED <<experiences, memory, currentSessionHandCount>>
        ELSE /\ experiences' = recordHand(experiences, e)
             /\ memory' = IF linked
                          THEN [memory EXCEPT !.recentExperiences = experiences']
                          ELSE memory
             /\ currentSessionHandCount' = currentSessionHandCount + 1
    /\ handsRecorded' = handsRecorded + 1
    /\ budget' = budget - 1
    /\ UNCHANGED <<sessions, profiles, linked, currentSessionId, learnEnabled, learningEnabled, file, io, outcome,
                   adjustmentsAdded, sessionsRecorded, otherThanLearn>>

\* Deno.writeTextFile is entered: the store rejects the write before touching
\* the file (save logs and rethrows), or the file is truncated and the write
\* is under way.
writeBegins(caller, started) ==
    IF started
    THEN /\ file' = Torn
         /\ io' = [pc |-> "writing", caller |-> caller]
         /\ outcome' = outcome
    ELSE /\ file' = file
         /\ io' = Idle
         /\ outcome' = [op |-> caller, raised |-> TRUE, rejected |-> TRUE, saw |-> "none"]

\* LearningCoordinator.recordSession, up to the point where the write is under
\* way or has been rejected
RecordSession ==
    /\ io = Idle
    /\ budget > 0
    /\ sessionsRecorded' = sessionsRecorded + 1
    /\ budget' = budget - 1
    /\ \E sessionResult \in SessionInputs(sessionsRecorded + 1), started \in BOOLEAN :
        IF ~learnEnabled
        THEN /\ outcome' = Done("recordSession")
             /\ UNCHANGED <<experiences, sessions, profiles, memory, linked, file, io>>
        ELSE LET st == recordSessionInMemory(LearnState, sessionResult,
                                             sessionResult.finalRank, Now + 1)
             IN  /\ experiences' = st.experiences
                 /\ sessions' = st.sessions
                 /\ profiles' = st.profiles
                 /\ memory' = st.memory
                 /\ linked' = TRUE
                 /\ writeBegins("recordSession", started)
    /\ UNCHANGED <<currentSessionId, currentSessionHandCount, learnEnabled, learningEnabled,
                   adjustmentsAdded, handsRecorded, otherThanLearn>>

\* LearningCoordinator.save, up to the same point
Save ==
    /\ io = Idle
    /\ budget > 0
    /\ budget' = budget - 1
    /\ \E started \in BOOLEAN : writeBegins("save", started)
    /\ UNCHANGED <<experiences, sessions, profiles, memory, linked, currentSessionId,
                   currentSessionHandCount, learnEnabled, learningEnabled, adjustmentsAdded,
                   handsRecorded, sessionsRecorded, otherThanLearn>>

\* The write reaches the end of the text; save returns, and recordSession
\* resets its session tracking.
WriteComplete ==
    /\ io.pc = "writing"
    /\ file' = Written(memory, Now)
    /\ io' = Idle
    /\ outcome' = Done(io.caller)
    /\ IF io.caller = "recordSession"
       THEN currentSessionId' = NoSession /\ currentSessionHandCount' = 0
       ELSE UNCHANGED <<currentSessionId, currentSessionHandCount>>
    /\ UNCHANGED <<experiences, sessions, profiles, memory, linked, learnEnabled, learningEnabled,
                   adjustmentsAdded, budget, handsRecorded, sessionsRecorded,
                   otherThanLearn>>

\* MemoryManager.updatePerformance called on its own
UpdatePerformance ==
    /\ io = Idle
    /\ budget > 0
    /\ memory' = updatePerformance(memory, WonSession(sessionsRecorded + 1))
    /\ budget' = budget - 1
    /\ UNCHANGED <<experiences, sessions, profiles, linked, currentSessionId,
                   currentSessionHandCount, learnEnabled, learningEnabled, file, io, outcome, adjustmentsAdded,
                   handsRecorded, sessionsRecorded, otherThanLearn>>

\* MemoryManager.addStrategyAdjustment
AddStrategyAdjustment ==
    /\ io = Idle
    /\ budget > 0
    /\ LET a == StockAdjustment(adjustmentsAdded + 1)
       IN  memory' = addStrategyAdjustment(memory, a.situation, a.adjustment, a.reason,
                                           a.timestamp)
    /\ adjustmentsAdded' = adjustmentsAdded + 1
    /\ budget' = budget - 1
    /\ UNCHANGED <<experiences, sessions, profiles, linked, currentSessionId,
                   currentSessionHandCount, learnEnabled, learningEnabled, file, io, outcome, handsRecorded,
                   sessionsRecorded, otherThanLearn>>

\* The process dies, at any point, and a new one constructs its coordinator.
\* Only the file survives.
Crash ==
    /\ budget > 0
    /\ budget' = budget - 1
    /\ Constructed(Now)
    /\ UNCHANGED <<file, learnEnabled, learningEnabled, adjustmentsAdded, handsRecorded,
                   sessionsRecorded, otherThanLearn>>

InitLearn ==
    /\ CounterInit
    /\ enabled = TRUE
    /\ HitEVInit
    /\ experiences = <<>>
    /\ sessions = <<>>
    /\ profiles = <<>>
    /\ learnEnabled \in BOOLEAN
    /\ learningEnabled = TRUE
    /\ memory = createEmptyMemory(0, learnEnabled)
    /\ linked = FALSE
    /\ currentSessionId = NoSession
    /\ currentSessionHandCount = 0
    /\ file \in {Missing, FullFile}
    /\ handsRecorded = IF file = Missing THEN 0 ELSE Len(FullHands)
    /\ sessionsRecorded = IF file = Missing THEN 0 ELSE FullSessions
    /\ adjustmentsAdded = IF file = Missing THEN 0 ELSE Len(FullAdjustments)
    /\ io = Idle
    /\ outcome = NoOutcome
    /\ budget = MaxOps
    /\ ProfilerInit
    /\ BetInit
    /\ MonitorInit
    /\ PlayInit
    /\ StrategyInit

NextLearn ==
    \/ LearningInit
    \/ StartSession
    \/ RecordHand
    \/ RecordSession
    \/ Save
    \/ WriteComplete
    \/ UpdatePerformance
    \/ AddStrategyAdjustment
    \/ Crash

SpecLearn == InitLearn /\ [][NextLearn]_vars

(***************************************************************************)
(* SpecProfile: one OpponentProfiler, empty at first, taking updateProfile *)
(* and updateWithHandObservation calls in any order.                       *)
(***************************************************************************)
otherThanProfiler ==
    <<counterVars, hitEV, trackerVars, memory, linked, currentSessionId,
      currentSessionHandCount, learnEnabled, learningEnabled, file, io, outcome, adjustmentsAdded, budget,
      betVars, monitorVars, playVars, lastCall>>

InitProfile ==
    /\ CounterInit
    /\ enabled = TRUE
    /\ HitEVInit
    /\ TrackerInit
    /\ LearnInit
    /\ ProfilerInit
    /\ BetInit
    /\ MonitorInit
    /\ PlayInit
    /\ StrategyInit

NextProfile ==
    \/ ProfilerUpdateProfile /\ UNCHANGED otherThanProfiler
    \/ ProfilerObserveHand /\ UNCHANGED otherThanProfiler

SpecProfile == InitProfile /\ [][NextProfile]_vars

(***************************************************************************)
(* SpecBet: polls of one GameClient during the betting phases of a         *)
(* session, interleaved with the backend's updates.                        *)
(***************************************************************************)
otherThanBet == <<counterVars, hitEV, trackerVars, learnVars, profilerVars, monitorVars, playVars, lastCall>>

InitBet ==
    /\ CounterInit
    /\ HitEVInit
    /\ TrackerInit
    /\ LearnInit
    /\ ProfilerInit
    /\ BetInit
    /\ MonitorInit
    /\ PlayInit
    /\ StrategyInit

NextBet ==
    \/ HandleBettingPhase /\ UNCHANGED otherThanBet
    \/ BackendRefreshesState /\ UNCHANGED otherThanBet
    \/ BackendMovesTurn /\ UNCHANGED otherThanBet
    \/ BackendNextHand /\ UNCHANGED otherThanBet

SpecBet == InitBet /\ [][NextBet]_vars

(***************************************************************************)
(* SpecMonitor: the one SessionMonitor of a process.                       *)
(***************************************************************************)
otherThanMonitor == <<counterVars, hitEV, trackerVars, learnVars, profilerVars, betVars, playVars, lastCall>>

InitMonitor ==
    /\ CounterInit
    /\ enabled = TRUE
    /\ HitEVInit
    /\ TrackerInit
    /\ LearnInit
    /\ ProfilerInit
    /\ BetInit
    /\ MonitorInit
    /\ PlayInit
    /\ StrategyInit

NextMonitor ==
    \/ MonitorStart /\ UNCHANGED otherThanMonitor
    \/ MonitorStop /\ UNCHANGED otherThanMonitor
    \/ MonitorWakes /\ UNCHANGED otherThanMonitor
    \/ MonitorVisitsSession /\ UNCHANGED otherThanMonitor
    \/ MonitorPlayReturns /\ UNCHANGED otherThanMonitor
    \/ MonitorSleeps /\ UNCHANGED otherThanMonitor

SpecMonitor == InitMonitor /\ [][NextMonitor]_vars

(***************************************************************************)
(* SpecPlay: one GameClient.play() with the learning system enabled, over  *)
(* no memory file or the file of the stock history.                        *)
(***************************************************************************)
InitPlay == InitLearn /\ learnEnabled = TRUE

NextPlay ==
    \* play: await this.learning.init()
    \/ playPc = "playing" /\ outcome = NoOutcome /\ LearningInit
    \* play: this.learning.startSession(this.sessionId)
    \/ playPc = "playing" /\ outcome.op = "init" /\ currentSessionId = NoSession /\ StartSession
    \* game loop, phase "action", Bob's turn
    \/ /\ currentSessionId # NoSession
       /\ HandleActionPhase
       /\ UNCHANGED <<seen, hitEV, trackerVars, learnVars, profilerVars, betVars, monitorVars,
                      lastCall>>
    \* game loop, phase "completed"
    \/ /\ currentSessionId # NoSession
       /\ HandleSessionCompletion
       /\ UNCHANGED <<counterVars, hitEV, trackerVars, learnVars, profilerVars, betVars,
                      monitorVars, lastCall>>
    \* handleSessionCompletion: await this.learning.recordSession(results, results.finalRank)
    \/ playPc = "completing" /\ outcome.op = "init" /\ RecordSession
    \/ WriteComplete
    \* handleSessionCompletion: await this.learning.save()
    \/ playPc = "completing" /\ outcome = Done("recordSession") /\ Save

SpecPlay == InitPlay /\ [][NextPlay]_vars

(***************************************************************************)
(* SpecDeck: the CardCounter on its own, called card by card through more  *)
(* than a whole shoe.                                                      *)
(***************************************************************************)
NextDeck ==
    \/ ShoeObserve
    \/ ShoeReset
    \/ ShoeSetEnabled

SpecDeck == InitShoe /\ [][NextDeck]_vars

(***************************************************************************)
(* SpecStrategy: an OptimalStrategy observing cards and deciding.          *)
(***************************************************************************)
otherThanStrategy == <<seen, hitEV, trackerVars, learnVars, profilerVars, betVars, monitorVars,
                       playVars>>

NextStrategy ==
    \/ StrategyObserveCard /\ UNCHANGED otherThanStrategy
    \/ StrategyGetDecision /\ UNCHANGED otherThanStrategy
    \/ StrategyReturn /\ UNCHANGED otherThanStrategy

\* A fresh counter, or one that has counted forty low or forty high cards.
CountedBefore == {<<>>, [i \in 1..40 |-> "5"], [i \in 1..40 |-> "K"]}

InitStrategy ==
    /\ enabled \in BOOLEAN
    /\ seen \in (IF enabled THEN CountedBefore ELSE {<<>>})
    /\ runningCount = observeAll([rc |-> 0, cd |-> 0, en |-> enabled], seen).rc
    /\ cardsDealt = observeAll([rc |-> 0, cd |-> 0, en |-> enabled], seen).cd
    /\ HitEVInit
    /\ TrackerInit
    /\ LearnInit
    /\ ProfilerInit
    /\ BetInit
    /\ MonitorInit
    /\ PlayInit
    /\ StrategyInit

SpecStrategy == InitStrategy /\ [][NextStrategy]_vars

(***************************************************************************)
(* SpecAdjust: an ExperienceTracker recording hands of one situation with  *)
(* different actions and outcomes.                                         *)
(***************************************************************************)
NextAdjust ==
    \/ TrackerRecordLearnedHand /\ UNCHANGED otherThanTracker

SpecAdjust == InitTracker /\ [][NextAdjust]_vars

(***************************************************************************)
(* SpecOpponent: adjustDecisionForOpponent called during the action phase  *)
(* by a coordinator that knows some opponents, at different counts.        *)
(***************************************************************************)
otherThanCall == <<counterVars, hitEV, trackerVars, learnVars, profilerVars, betVars,
                   monitorVars, playVars>>

InitOpponent ==
    /\ enabled \in BOOLEAN
    /\ seen \in (IF enabled THEN CountedBefore ELSE {<<>>})
    /\ runningCount = observeAll([rc |-> 0, cd |-> 0, en |-> enabled], seen).rc
    /\ cardsDealt = observeAll([rc |-> 0, cd |-> 0, en |-> enabled], seen).cd
    /\ HitEVInit
    /\ TrackerInit
    /\ learnEnabled \in BOOLEAN
    /\ learningEnabled = TRUE
    /\ profiles \in { profilesAfter(<<>>, history, 1) : history \in OpponentHistories }
    /\ memory = createEmptyMemory(0, learnEnabled)
    /\ linked = FALSE
    /\ currentSessionId = NoSession
    /\ currentSessionHandCount = 0
    /\ file = Missing
    /\ io = Idle
    /\ outcome = NoOutcome
    /\ adjustmentsAdded = 0
    /\ budget = 0
    /\ ProfilerInit
    /\ BetInit
    /\ MonitorInit
    /\ PlayInit
    /\ StrategyInit

NextOpponent ==
    \/ LearningAdjustDecisionForOpponent /\ UNCHANGED otherThanCall
    \/ LearningAdjustReturns /\ UNCHANGED otherThanCall

SpecOpponent == InitOpponent /\ [][NextOpponent]_vars

(***************************************************************************)
(* SpecDisabled: the operations of one LearningCoordinator called in any   *)
(* order under every setting of BOT_ENABLED and LEARNING_ENABLED, with     *)
(* and without a memory file on disk.                                      *)
(***************************************************************************)
InitDisabled ==
    /\ CounterInit
    /\ enabled = TRUE
    /\ HitEVInit
    /\ experiences = <<>>
    /\ sessions = <<>>
    /\ profiles = <<>>
    /\ learnEnabled \in BOOLEAN
    /\ learningEnabled \in BOOLEAN
    /\ memory = createEmptyMemory(0, learnEnabled)
    /\ linked = FALSE
    /\ currentSessionId = NoSession
    /\ currentSessionHandCount = 0
    /\ file \in {Missing, FullFile}
    /\ handsRecorded = IF file = Missing THEN 0 ELSE Len(FullHands)
    /\ sessionsRecorded = IF file = Missing THEN 0 ELSE FullSessions
    /\ adjustmentsAdded = IF file = Missing THEN 0 ELSE Len(FullAdjustments)
    /\ io = Idle
    /\ outcome = NoOutcome
    /\ budget = MaxOps
    /\ ProfilerInit
    /\ BetInit
    /\ MonitorInit
    /\ PlayInit
    /\ StrategyInit

NextDisabled ==
    \/ ~lastCall.called /\ LearningInit
    \/ ~lastCall.called /\ StartSession
    \/ ~lastCall.called /\ RecordHand
    \/ ~lastCall.called /\ RecordSession
    \/ ~lastCall.called /\ Save
    \/ ~lastCall.called /\ WriteComplete
    \/ io = Idle /\ LearningGetStrategyAdjustment /\ UNCHANGED otherThanCall
    \/ io = Idle /\ LearningAdjustDecisionForOpponent /\ UNCHANGED otherThanCall
    \/ LearningAdjustReturns /\ UNCHANGED otherThanCall

SpecDisabled == InitDisabled /\ [][NextDisabled]_vars

(***************************************************************************)
(* SpecPerformance: a MemoryManager taking updatePerformance calls, from   *)
(* an empty memory and from the memory after 18 sessions, none of them     *)
(* won.                                                                    *)
(***************************************************************************)
otherThanPerformance ==
    <<counterVars, hitEV, experiences, sessions, handsRecorded, profiles, linked,
      currentSessionId, currentSessionHandCount, learnEnabled, learningEnabled, file, io,
      outcome, adjustmentsAdded, profilerVars, betVars, monitorVars, playVars>>

SessionsBefore == {0, 18}

InitPerformance ==
    /\ CounterInit
    /\ enabled = TRUE
    /\ HitEVInit
    /\ experiences = <<>>
    /\ handsRecorded = 0
    /\ sessionsRecorded \in SessionsBefore
    /\ sessions = [i \in 1..sessionsRecorded |-> StockSession(i)]
    /\ profiles = <<>>
    /\ learnEnabled = TRUE
    /\ learningEnabled = TRUE
    /\ memory = IF sessionsRecorded = 0 THEN createEmptyMemory(0, learnEnabled)
                ELSE StockMemory(sessionsRecorded, <<>>)
    /\ linked = FALSE
    /\ currentSessionId = NoSession
    /\ currentSessionHandCount = 0
    /\ file = Missing
    /\ io = Idle
    /\ outcome = NoOutcome
    /\ adjustmentsAdded = 0
    /\ budget = MaxPerformanceUpdates
    /\ ProfilerInit
    /\ BetInit
    /\ MonitorInit
    /\ PlayInit
    /\ StrategyInit

NextPerformance ==
    \/ MemoryUpdatePerformance /\ UNCHANGED otherThanPerformance
    \/ MemoryGetLearningEffectiveness /\ UNCHANGED otherThanPerformance
    \/ MemoryEffectivenessReturns /\ UNCHANGED otherThanPerformance

SpecPerformance == InitPerformance /\ [][NextPerformance]_vars

(***************************************************************************)
(* SpecLoop: one GameClient.play() against a backend that answers each     *)
(* poll with no state or with any phase and hand number.  SpecLoopFair     *)
(* adds that play() keeps polling and that time keeps passing.             *)
(***************************************************************************)
otherThanLoop ==
    <<counterVars, hitEV, experiences, sessions, handsRecorded, learnVars, profilerVars,
      betVars, monitorVars, lastCall>>

InitLoop ==
    /\ CounterInit
    /\ enabled = TRUE
    /\ HitEVInit
    /\ TrackerInit
    /\ LearnInit
    /\ ProfilerInit
    /\ BetInit
    /\ MonitorInit
    /\ currentHandNumber = 0
    /\ actionsExecuted = 0
    /\ playPc = "waiting"
    /\ pollBackoff = Int2Rat(1)
    /\ lastHandNumber = 0
    /\ samePhaseCount = 0
    /\ stuckMinutes = 0
    /\ lastPoll = "none"
    /\ TableInit
    /\ StrategyInit

NextLoop ==
    \/ WaitForSessionStart /\ UNCHANGED otherThanLoop
    \/ GameLoopPass /\ UNCHANGED otherThanLoop
    \/ MinutePasses /\ UNCHANGED otherThanLoop

SpecLoop == InitLoop /\ [][NextLoop]_vars

SpecLoopFair ==
    /\ SpecLoop
    /\ WF_vars(WaitForSessionStart /\ UNCHANGED otherThanLoop)
    /\ WF_vars(GameLoopPass /\ UNCHANGED otherThanLoop)
    /\ WF_vars(MinutePasses /\ UNCHANGED otherThanLoop)

(***************************************************************************)
(* SpecTable: the hands of one session in the action phase, polled on      *)
(* Bob's turn by a GameClient whose counter is enabled.                    *)
(***************************************************************************)
otherThanTable ==
    <<hitEV, trackerVars, learnVars, profilerVars, betVars, monitorVars, playPc,
      currentHandNumber, actionsExecuted, loopVars, lastCall>>

NextTable ==
    \/ TableDealsHand /\ UNCHANGED otherThanTable
    \/ TableDealsCard /\ UNCHANGED otherThanTable
    \/ TablePoll /\ UNCHANGED otherThanTable

InitTable == InitMonitor

SpecTable == InitTable /\ [][NextTable]_vars

(***************************************************************************)
(* SpecTally: a LearningCoordinator over a new memory, called in the order *)
(* of a run: init, then for each session startSession, recordHand for its *)
(* hands and one recordSession.                                            *)
(***************************************************************************)
InitTally ==
    /\ CounterInit
    /\ enabled = TRUE
    /\ HitEVInit
    /\ TrackerInit
    /\ profiles = <<>>
    /\ learnEnabled = TRUE
    /\ learningEnabled = TRUE
    /\ memory = createEmptyMemory(0, learnEnabled)
    /\ linked = FALSE
    /\ currentSessionId = NoSession
    /\ currentSessionHandCount = 0
    /\ file = Missing
    /\ io = Idle
    /\ outcome = NoOutcome
    /\ adjustmentsAdded = 0
    /\ budget = MaxTallyOps
    /\ ProfilerInit
    /\ BetInit
    /\ MonitorInit
    /\ PlayInit
    /\ StrategyInit

NextTally ==
    \/ outcome = NoOutcome /\ LearningInit
    \/ outcome # NoOutcome /\ currentSessionId = NoSession /\ StartSession
    \/ currentSessionId # NoSession /\ RecordHand
    \/ currentSessionId # NoSession /\ sessionsRecorded < currentSessionId /\ RecordSession
    \/ WriteComplete

SpecTally == InitTally /\ [][NextTally]_vars

(***************************************************************************)
(* Properties                                                              *)
(***************************************************************************)
\* Hi-Lo weights: 2-6 -> +1, 7-9 -> 0, 10/J/Q/K/A -> -1
HiLoWeight(rank) ==
    CASE rank \in {"2", "3", "4", "5", "6"} -> 1
      [] rank \in {"7", "8", "9"} -> 0
      [] rank \in {"10", "J", "Q", "K", "A"} -> -1

RECURSIVE SumWeights(_)
SumWeights(cards) ==
    IF cards = <<>> THEN 0 ELSE HiLoWeight(Head(cards)) + SumWeights(Tail(cards))

FreshCounter == [rc |-> 0, cd |-> 0, en |-> TRUE]

Reordered(cards, p) == [i \in 1..Len(cards) |-> cards[p[i]]]

\* C1: for the cards counted by an enabled counter since the last reset,
\* runningCount is the signed sum of their Hi-Lo weights, cardsDealt is their
\* number, and counting the same cards in any other order gives the same
\* runningCount.
C1_RunningCountIsHiLoSum ==
    /\ runningCount = SumWeights(seen)
    /\ cardsDealt = Len(seen)
    /\ \A p \in Permutations(1..Len(seen)) :
          observeAll(FreshCounter, Reordered(seen, p)).rc = runningCount

\* A low, a neutral and a ten-valued card have been counted.
C1_Witness ==
    /\ Len(seen) >= 3
    /\ \E i, j, k \in 1..Len(seen) :
          /\ seen[i] \in {"2", "3", "4", "5", "6"}
          /\ seen[j] \in {"7", "8", "9"}
          /\ seen[k] = "10"
    /\ cardsDealt >= 3

\* C2: in every reachable state of the counter 0 <= cardsDealt <= totalCards.
C2_CardsDealtWithinShoe ==
    /\ 0 <= cardsDealt
    /\ cardsDealt <= totalCards

\* True counts, in tenths, compared by the bet ramp.
TrueCountTenths == -60..60

\* C3: for every chip stack getBet is non-decreasing in the true count: the
\* bet at the counter's true count is at least the bet at every true count
\* t that is not above it.
C3_BetNonDecreasingInTrueCount ==
    \A chips \in ChipStacks :
        \A t10 \in TrueCountTenths :
            (enabled /\ t10 <= getTrueCount10(Counter))
                => betForTrueCount(t10, chips) <= getBet(Counter, chips)

\* C4: calculateHitEV invoked with depth 5 makes no further recursive call,
\* so no invocation has depth 6.
C4_NoCallDeeperThan5 ==
    hitEV.pc = "running" => hitEV.depth <= 5

\* The last n elements of a list.
LastN(list, n) == SubSeq(list, Len(list) - n + 1, Len(list))

\* C5: after recording n hands from an empty tracker the experience list
\* holds min(n, maxExperiences) entries, the most recent ones in arrival
\* order; likewise the session list with maxSessions.
C5_BoundedHistoryFIFO ==
    /\ Len(experiences) = Min(handsRecorded, maxExperiences)
    /\ \A i \in 1..Len(experiences) :
          experiences[i].handNumber = handsRecorded - Len(experiences) + i
    /\ Len(sessions) = Min(sessionsRecorded, maxSessions)
    /\ \A i \in 1..Len(sessions) :
          sessions[i].sessionId = sessionsRecorded - Len(sessions) + i

\* maxExperiences + k hands and maxSessions + k sessions were recorded, k > 0.
C5_Witness ==
    /\ handsRecorded > maxExperiences
    /\ Len(experiences) = 1000
    /\ sessionsRecorded > maxSessions
    /\ Len(sessions) = 100

\* The caps of a BobMemory, and its three performance windows in step.
CapsRespected(mem) ==
    /\ Len(mem.recentExperiences) <= maxExperiences
    /\ Len(mem.recentSessions) <= maxSessions
    /\ Len(mem.performance.winRateBySession) <= maxPerformanceWindow
    /\ Len(mem.performance.avgRankBySession) = Len(mem.performance.winRateBySession)
    /\ Len(mem.performance.avgChipsBySession) = Len(mem.performance.winRateBySession)
    /\ Len(mem.strategyAdjustments) <= maxStrategyAdjustments

\* new is old with one element added at the end and, when old was full,
\* without old's first element.
EvictsOldest(old, new, cap) ==
    IF Len(old) < cap
    THEN Len(new) = Len(old) + 1 /\ SubSeq(new, 1, Len(old)) = old
    ELSE Len(new) = cap /\ SubSeq(new, 1, cap - 1) = Tail(old)

InsertionEvictsOldest ==
    /\ (RecordHand /\ learnEnabled /\ currentSessionId # NoSession)
        => /\ EvictsOldest(experiences, experiences', maxExperiences)
           /\ experiences'[Len(experiences')].handNumber = handsRecorded'
           /\ linked => memory'.recentExperiences = experiences'
    /\ (RecordSession /\ learnEnabled)
        => /\ EvictsOldest(sessions, sessions', maxSessions)
           /\ sessions'[Len(sessions')].sessionId = sessionsRecorded'
           /\ memory'.recentSessions = sessions'
           /\ memory'.recentExperiences = experiences'
    /\ ((RecordSession /\ learnEnabled) \/ UpdatePerformance)
        => /\ EvictsOldest(memory.performance.winRateBySession,
                           memory'.performance.winRateBySession, maxPerformanceWindow)
           /\ EvictsOldest(memory.performance.avgRankBySession,
                           memory'.performance.avgRankBySession, maxPerformanceWindow)
           /\ EvictsOldest(memory.performance.avgChipsBySession,
                           memory'.performance.avgChipsBySession, maxPerformanceWindow)
    /\ AddStrategyAdjustment
        => /\ EvictsOldest(memory.strategyAdjustments, memory'.strategyAdjustments,
                           maxStrategyAdjustments)
           /\ memory'.strategyAdjustments[Len(memory'.strategyAdjustments)].timestamp
                = adjustmentsAdded'

\* C6: in every state reached by recordHand, recordSession, updatePerformance,
\* addStrategyAdjustment, save and load (with the trackers re-created from the
\* loaded memory), in the memory, the trackers and the file, every bounded
\* collection is within its cap and the three performance windows have the
\* same length; and every insertion adds at the end and, at the cap, removes
\* exactly the oldest element.
C6_CapsRespected ==
    /\ [](/\ CapsRespected(memory)
          /\ Len(experiences) <= maxExperiences
          /\ Len(sessions) <= maxSessions
          /\ file.kind = "json" => CapsRespected(file.doc))
    /\ [][InsertionEvictsOldest]_vars

\* A memory loaded from the full file has taken one more hand and one more
\* session: the oldest hand and the oldest session are gone.
C6_Witness ==
    /\ Len(memory.recentExperiences) = maxExperiences
    /\ memory.recentExperiences[1].handNumber = 2
    /\ Len(memory.recentSessions) = maxSessions
    /\ memory.recentSessions[1].sessionId = 2
    /\ Len(memory.performance.winRateBySession) = maxPerformanceWindow
    /\ memory.totalSessionsPlayed = maxPerformanceWindow + 1

\* C7: a crash during save leaves the previous or the new snapshot on disk,
\* so no load ever meets a torn file.
C7_LoadNeverObservesTornFile ==
    outcome.saw # "torn"

\* C8: when the store rejects the write, recordSession and save return
\* without raising, and recordSession has reset its session tracking.
C8_WriteFailureDoesNotRaise ==
    outcome.rejected
        => /\ ~outcome.raised
           /\ outcome.op = "recordSession"
                => currentSessionId = NoSession /\ currentSessionHandCount = 0

IsEmptyMemory(mem) ==
    /\ mem.totalSessionsPlayed = 0
    /\ mem.totalHandsPlayed = 0
    /\ mem.opponentProfiles = <<>>
    /\ mem.recentExperiences = <<>>
    /\ mem.recentSessions = <<>>

\* C9: load never raises; with the file missing or unparsable the memory is
\* left as it was, which on a first run (a manager as constructed, no file)
\* is the empty memory.
C9_LoadNeverRaises ==
    [][(LearningInit /\ learnEnabled)
        => /\ ~outcome'.raised
           /\ file.kind \in {"missing", "torn"} => memory' = memory
           /\ (file.kind = "missing" /\ memory = createEmptyMemory(memory.lastUpdated, learnEnabled))
                => IsEmptyMemory(memory')]_vars

\* A load met an unparsable file.
C9_Witness ==
    /\ outcome.op = "init"
    /\ outcome.saw = "torn"
    /\ ~outcome.raised

ProfileSet(m) == {m[i].value : i \in 1..Len(m)}

KeyedByWallet(m) ==
    /\ \A i \in 1..Len(m) : m[i].key = m[i].value.walletAddress
    /\ \A i, j \in 1..Len(m) : m[i].key = m[j].key => i = j

SameAfterRoundTrip(saved, loaded) ==
    /\ ProfileSet(loaded.opponentProfiles) = ProfileSet(saved.opponentProfiles)
    /\ KeyedByWallet(loaded.opponentProfiles)
    /\ loaded.recentExperiences = saved.recentExperiences
    /\ loaded.recentSessions = saved.recentSessions

\* C10: what a load makes of the file a save has just completed has the
\* profiles of the saved memory, each under its walletAddress, and the saved
\* recentExperiences and recentSessions in the same order; and every memory
\* loaded from a file serializes back to the document in that file.
C10_SaveLoadRoundTrip ==
    [][/\ WriteComplete
            => SameAfterRoundTrip(memory, load(createEmptyMemory(Now, learnEnabled), file').memory)
       /\ (LearningInit /\ learnEnabled /\ file.kind = "json")
            => /\ KeyedByWallet(memory'.opponentProfiles)
               /\ serializable(memory', file.doc.lastUpdated) = file.doc]_vars

\* A memory with two profiles and a full experience list was saved and loaded.
C10_Witness ==
    /\ outcome.op = "init"
    /\ outcome.saw = "json"
    /\ file.kind = "json"
    /\ Len(memory.opponentProfiles) >= 2
    /\ Len(memory.recentExperiences) = maxExperiences
    /\ memory.recentExperiences[1].handNumber = 2
    /\ serializable(memory, file.doc.lastUpdated) = file.doc

RECURSIVE SumOf(_)
SumOf(list) == IF list = <<>> THEN 0 ELSE Head(list) + SumOf(Tail(list))

\* The arithmetic mean of a non-empty list of integers.
Mean(list) == Rat(SumOf(list), Len(list))

BetsOf(w) == [i \in 1..Len(observedSessions[w]) |-> observedSessions[w][i].avgBetSize]
ChipsOf(w) == [i \in 1..Len(observedSessions[w]) |-> observedSessions[w][i].finalChips]
RanksOf(w) == [i \in 1..Len(observedSessions[w]) |-> observedSessions[w][i].finalRank]

\* C11: after k sessions with an opponent, avgBetSize, avgFinalChips and
\* avgFinalRank of its profile are the arithmetic means of the k observed
\* values.
C11_RunningAveragesAreMeans ==
    \A w \in Wallets :
        Len(observedSessions[w]) > 0
            => /\ mapHas(profiles, w)
               /\ mapGet(profiles, w).stats.avgBetSize = Mean(BetsOf(w))
               /\ mapGet(profiles, w).stats.avgFinalChips = Mean(ChipsOf(w))
               /\ mapGet(profiles, w).stats.avgFinalRank = Mean(RanksOf(w))

InUnitInterval(x) == ~RatLess(x, Int2Rat(0)) /\ ~RatLess(Int2Rat(1), x)

\* C12: in every profile, aggressionScore, skillScore and consistencyScore
\* lie in [0, 1].
C12_ScoresInUnitInterval ==
    \A i \in 1..Len(profiles) :
        /\ InUnitInterval(profiles[i].value.stats.aggressionScore)
        /\ InUnitInterval(profiles[i].value.stats.skillScore)
        /\ InUnitInterval(profiles[i].value.stats.consistencyScore)

\* The rule table of weakness tags, as a set.
WeaknessTable(profile) ==
    (IF RatLess(Rat(75, 100), profile.stats.aggressionScore) THEN {"overly_aggressive"} ELSE {})
    \cup (IF RatLess(profile.stats.aggressionScore, Rat(25, 100)) THEN {"overly_conservative"} ELSE {})
    \cup (IF RatLess(profile.stats.skillScore, Rat(4, 10)) THEN {"poor_strategy"} ELSE {})
    \cup (IF RatLess(Rat(5, 100), profile.patterns.split10s) THEN {"splits_tens"} ELSE {})
    \cup (IF RatLess(profile.patterns.doubleOn11, Rat(5, 10)) THEN {"misses_double_opportunities"} ELSE {})
    \cup (IF RatLess(profile.stats.doubleFrequency, Rat(5, 100)) THEN {"rarely_doubles"} ELSE {})

TagsOf(profile) == {profile.weaknesses[i] : i \in 1..Len(profile.weaknesses)}

\* C13: after every updateProfile and updateWithHandObservation, the
\* weaknesses of every profile that has been through an update are the rule
\* table applied to its current stats and patterns; "splits_tens" is there
\* exactly when the split-tens frequency is above 0.05.
C13_WeaknessesMatchRuleTable ==
    \A i \in 1..Len(profiles) :
        /\ TagsOf(profiles[i].value) = WeaknessTable(profiles[i].value)
        /\ "splits_tens" \in TagsOf(profiles[i].value)
             <=> RatLess(Rat(5, 100), profiles[i].value.patterns.split10s)

\* C14: Bob places at most one bet per hand: once the backend has accepted
\* his bet for a hand, no poll of that hand's betting phase issues another
\* place_bet request, whatever the snapshot shows.
C14_AtMostOneBetPerHand ==
    betsOverridden = 0

C16_ExperienceRecordedBeforeSessionResult ==
    [][sessionsRecorded' = sessionsRecorded + 1
         => currentSessionHandCount >= actionsExecuted]_vars

\* C17: getTrueCount is 0 when counting is disabled or no cards remain, and
\* otherwise a nearest tenth of runningCount * 52 / (totalCards - cardsDealt).
C17_TrueCountGuardedAndRounded ==
    LET cardsRemaining == totalCards - cardsDealt
    IN  IF ~enabled \/ cardsDealt >= totalCards
        THEN getTrueCount10(Counter) = 0
        ELSE 2 * Abs(getTrueCount10(Counter) * cardsRemaining - runningCount * 520)
                <= cardsRemaining

\* An enabled counter with a non-zero running count has counted more cards
\* than the shoe holds.
C17_Witness ==
    /\ enabled
    /\ cardsDealt > totalCards
    /\ runningCount # 0

\* The value the tiers of the betting ramp give for a true count of t10
\* tenths and a chip stack.
StepBet(t10, chips) ==
    LET max == Min(maxBet, chips)
    IN  CASE t10 >= 50 -> max
          [] t10 >= 40 /\ t10 < 50 -> (8 * max) \div 10
          [] t10 >= 30 /\ t10 < 40 -> (6 * max) \div 10
          [] t10 >= 10 * countThresholdBetIncrease /\ t10 < 30 -> (4 * max) \div 10
          [] OTHER -> minBet

\* C18: with counting enabled getBet is the step function of the true
\* count: max from 5, 80% of max from 4, 60% from 3, 40% from the threshold,
\* minBet below it, a count on a boundary in the higher tier.
C18_BetIsStepFunction ==
    enabled => \A chips \in ChipStacks :
                   getBet(Counter, chips) = StepBet(getTrueCount10(Counter), chips)

\* An enabled counter whose true count is exactly on the boundary 3.0.
C18_Witness ==
    /\ enabled
    /\ getTrueCount10(Counter) = 30
    /\ runningCount * 520 = 30 * (totalCards - cardsDealt)

\* C19: with counting disabled updateCount changes nothing, getTrueCount is
\* 0, getBet is minBet, shouldTakeInsurance is false and getStrategyModifier
\* is 0, in every state and for every input.
C19_DisabledFallbacks ==
    ~enabled =>
        /\ \A rank \in Ranks : updateCount(Counter, rank) = Counter
        /\ getTrueCount10(Counter) = 0
        /\ \A chips \in ChipStacks : getBet(Counter, chips) = minBet
        /\ shouldTakeInsurance(Counter) = FALSE
        /\ getStrategyModifier1000(Counter) = 0

\* A counter disabled after it counted to a true count of 5 or more.
C19_Witness ==
    /\ ~enabled
    /\ cardsDealt < totalCards
    /\ runningCount * 52 >= 5 * (totalCards - cardsDealt)

\* C20: on a fresh shoe, after six cards of ranks 2, 3, 4, 5, 6, 6 the
\* running count is +6, the true count 0.8 and the bet the table minimum
\* for every chip stack.
C20_SixLowCardsScenario ==
    LET after == observeAll([rc |-> 0, cd |-> 0, en |-> TRUE],
                            <<"2", "3", "4", "5", "6", "6">>)
    IN  /\ after = [rc |-> 6, cd |-> 6, en |-> TRUE]
        /\ (enabled /\ cardsDealt = 6 /\ runningCount = 6) =>
               /\ Counter = after
               /\ getTrueCount10(Counter) = 8
               /\ \A chips \in ChipStacks : getBet(Counter, chips) = minBet

\* Six cards counted +1 each by an enabled counter since the fresh shoe.
C20_Witness ==
    /\ enabled
    /\ cardsDealt = 6
    /\ runningCount = 6

\* The call of getDecision in progress is the scenario of C21.
Hard16AgainstSeven ==
    /\ lastCall.called
    /\ lastCall.situation.playerTotal = 16
    /\ ~lastCall.situation.isSoft
    /\ lastCall.situation.dealerUpcard = "7"
    /\ ~lastCall.situation.canDouble
    /\ ~lastCall.situation.canSplit
    /\ lastCall.learningAdjustment = 0
    /\ getStrategyModifier1000(Counter) = 0

\* C21: for hard 16 against a dealer 7, with no learning adjustment and no
\* count modifier, the hit EV exceeds the stand EV (by more than the rounding
\* of the computation) and getDecision returns hit.
C21_Hard16AgainstSevenHits ==
    Hard16AgainstSeven =>
        /\ calculateHitEV(16, 7, FALSE, 0) > calculateStandEV(16, 7) + 100
        /\ BaseEVs[lastCall.situation].hit = calculateHitEV(16, 7, FALSE, 0)
        /\ BaseEVs[lastCall.situation].stand = calculateStandEV(16, 7)
        /\ lastCall.decision.action = "hit"

C21_Witness == Hard16AgainstSeven

\* The fixed order of the actions.
ActionOrder == <<"stand", "hit", "double", "split">>

\* The highest adjusted EV of the four actions of the call in progress.
BestEV == CHOOSE ev \in {lastCall.actions[i].ev : i \in 1..4} :
              \A i \in 1..4 : lastCall.actions[i].ev <= ev

\* C22: the action returned is the first one in the order stand, hit, double,
\* split among those whose adjusted EV is the maximum, and the same
\* arguments and counter state give the same decision again.
C22_TieBreakByDeclarationOrder ==
    lastCall.called =>
        /\ \E i \in 1..4 :
            /\ lastCall.actions[i].action = ActionOrder[i]
            /\ lastCall.actions[i].ev = BestEV
            /\ \A j \in 1..(i - 1) : lastCall.actions[j].ev < BestEV
            /\ lastCall.decision.action = ActionOrder[i]
        /\ lastCall.decision
             = getDecision(lastCall.situation, lastCall.learningAdjustment, Counter)

\* Stand and hit have exactly equal adjusted EV and it is the maximum.
C22_Witness ==
    /\ lastCall.called
    /\ lastCall.actions[1].ev = BestEV
    /\ lastCall.actions[2].ev = BestEV

\* The highest EV among the actions other than the one at position i.
SecondBestEV(i) ==
    CHOOSE ev \in {lastCall.actions[j].ev : j \in (1..4) \ {i}} :
        \A j \in (1..4) \ {i} : lastCall.actions[j].ev <= ev

\* C23: the action returned has the highest adjusted EV and the confidence
\* is (bestEV - secondBestEV) / 0.5 clamped to [0, 1], a number in [0, 1].
C23_BestActionAndConfidence ==
    lastCall.called =>
        \E i \in 1..4 :
            /\ lastCall.decision.action = lastCall.actions[i].action
            /\ lastCall.actions[i].ev = BestEV
            /\ lastCall.decision.expectedValue = BestEV
            /\ lastCall.decision.confidence \in 0..1000000
            /\ lastCall.decision.confidence
                 = (IF SecondBestEV(i) = NegInfinity \/ 2 * (BestEV - SecondBestEV(i)) >= 1000000
                    THEN 1000000
                    ELSE 2 * (BestEV - SecondBestEV(i)))

\* Double and split are unavailable and the EV gap is wider than 0.5.
C23_Witness ==
    /\ lastCall.called
    /\ ~lastCall.situation.canDouble
    /\ ~lastCall.situation.canSplit
    /\ lastCall.actions[1].ev - lastCall.actions[2].ev > 500000
    /\ lastCall.decision.confidence = 1000000

\* The count-derived modifier of the counter, in millionths.
CountModifier ==
    Max(-100000, Min(100000, 2000 * getTrueCount10(Counter)))

StandEVUpTo21(playerTotal, dist) ==
    IF playerTotal = 21 THEN 100 * dist[6]
    ELSE 100 * (dist[6]
                + (IF 17 < playerTotal THEN dist[1] ELSE IF 17 = playerTotal THEN 0 ELSE -dist[1])
                + (IF 18 < playerTotal THEN dist[2] ELSE IF 18 = playerTotal THEN 0 ELSE -dist[2])
                + (IF 19 < playerTotal THEN dist[3] ELSE IF 19 = playerTotal THEN 0 ELSE -dist[3])
                + (IF 20 < playerTotal THEN dist[4] ELSE IF 20 = playerTotal THEN 0 ELSE -dist[4])
                + (IF 21 < playerTotal THEN dist[5] ELSE IF 21 = playerTotal THEN 0 ELSE -dist[5]))

\* C25 as amended: calculateStandEV is -1 for a bust hand, the dealer bust
\* probability for a total of exactly 21, and below 21 bustProb plus the sum
\* over the dealer totals 17..21 of prob * (+1, 0, -1).
C25_StandEVShortCircuits ==
    lastCall.called =>
        LET total == lastCall.situation.playerTotal
            dist == getDealerFinalDistribution(getRankValue(lastCall.situation.dealerUpcard))
        IN  BaseEVs[lastCall.situation].stand
              = (IF total > 21 THEN -1000000 ELSE StandEVUpTo21(total, dist))

\* C25 as stated: a bust hand is valued at the dealer bust probability too.
C25_BustShortCircuitsToDealerBust ==
    lastCall.called =>
        LET total == lastCall.situation.playerTotal
            dist == getDealerFinalDistribution(getRankValue(lastCall.situation.dealerUpcard))
        IN  BaseEVs[lastCall.situation].stand
              = (IF total > 21 THEN 100 * dist[6] ELSE StandEVUpTo21(total, dist))

\* getDecision is called for a bust hand.
C25_Witness ==
    /\ lastCall.called
    /\ lastCall.situation.playerTotal > 21

\* The triples getLearnedEVAdjustment is asked about.
AskedTriples == {<<16, "7", "hit">>, <<16, "7", "stand">>, <<16, "10", "hit">>, <<12, "7", "hit">>}

\* The stored hands that match a triple.
MatchingHands(t) ==
    {i \in 1..Len(experiences) : /\ experiences[i].playerTotal = t[1]
                                 /\ experiences[i].dealerUpcard = t[2]
                                 /\ experiences[i].actionTaken = t[3]}

RECURSIVE ChipsWonOver(_)
ChipsWonOver(indices) ==
    IF indices = {} THEN 0
    ELSE LET i == CHOOSE k \in indices : TRUE
         IN  experiences[i].chipsWon + ChipsWonOver(indices \ {i})

\* C26: getLearnedEVAdjustment is 0 with fewer than 5 matching hands, and
\* otherwise the mean chipsWon of the matching hands divided by 100, clamped
\* to [-0.2, +0.2].
C26_LearnedAdjustmentThresholdAndClamp ==
    \A t \in AskedTriples :
        LET k == Cardinality(MatchingHands(t))
            total == ChipsWonOver(MatchingHands(t))
            adjustment == getLearnedEVAdjustment(experiences, t[1], t[2], t[3])
        IN  /\ adjustment.d > 0
            /\ k < 5 => adjustment.n = 0
            /\ (k >= 5 /\ 5 * total > 100 * k) => adjustment = [n |-> 1, d |-> 5]
            /\ (k >= 5 /\ 5 * total < -100 * k) => adjustment = [n |-> -1, d |-> 5]
            /\ (k >= 5 /\ 5 * total <= 100 * k /\ 5 * total >= -100 * k)
                 => adjustment.n * 100 * k = total * adjustment.d

\* Five or more hit hands are stored and their mean outcome is inside the
\* clamp and not zero.
C26_Witness ==
    /\ Cardinality(MatchingHands(<<16, "7", "hit">>)) >= 5
    /\ getLearnedEVAdjustment(experiences, 16, "7", "hit") \notin
         {[n |-> 0, d |-> 1], [n |-> 1, d |-> 5], [n |-> -1, d |-> 5]}

\* C27: adjustDecisionForOpponent returns action, confidence and
\* expectedValue unchanged; when the known opponents' average skill is below
\* 0.4 the returned wager is 1.2 times the computed one, capped at maxBet;
\* when instead their average aggression is above 0.7 the returned wager is
\* the computed one.
C27_OpponentAdjustment ==
    lastCall.called =>
        LET decision == lastCall.decision
            adjusted == lastCall.adjusted
            known == knownOpponents(profiles, lastCall.opponentWallets)
        IN  /\ adjusted.action = decision.action
            /\ adjusted.confidence = decision.confidence
            /\ adjusted.expectedValue = decision.expectedValue
            /\ (learnEnabled /\ known # <<>>) =>
                 /\ RatLess(avgSkill(known), Rat(4, 10))
                      => adjusted.betSize
                           = RatMin(RatMul(decision.betSize, Rat(12, 10)), Int2Rat(maxBet))
                 /\ (~RatLess(avgSkill(known), Rat(4, 10))
                       /\ RatLess(Rat(7, 10), avgAggression(known)))
                      => adjusted.betSize = decision.betSize

\* C28: with LEARNING_ENABLED=false no step of the LearningCoordinator
\* changes the profiles, the experiences, the sessions, the memory or the
\* memory file; getStrategyAdjustment returns 0 and
\* adjustDecisionForOpponent returns the decision it was given.
C28_DisabledLearningIsNoOp ==
    [][~learningEnabled =>
         /\ UNCHANGED <<profiles, experiences, sessions, memory, file>>
         /\ (lastCall'.called /\ lastCall'.op = "getStrategyAdjustment")
               => lastCall'.adjustment = Int2Rat(0)
         /\ (lastCall'.called /\ lastCall'.op = "adjustDecisionForOpponent")
               => lastCall'.adjusted = lastCall'.decision]_vars

\* C29: once 20 sessions are recorded winRateBeforeLearning is the share of
\* wins among the first 20 sessions, whatever was recorded later; after
\* that winRateAfterLearning is the share of wins among the last 20
\* sessions; getLearningEffectiveness reports improving = false and rate 0
\* while fewer than 20 sessions are recorded.
C29_BaselineIsFirstTwenty ==
    LET perf == memory.performance
        played == memory.totalSessionsPlayed
        window == perf.winRateBySession
    IN  /\ (played >= baselineSessions /\ Len(window) = played)
            => perf.winRateBeforeLearning
                 = Rat(countWins(SubSeq(window, 1, baselineSessions)), baselineSessions)
        /\ (played > baselineSessions /\ Len(window) = played)
            => perf.winRateAfterLearning
                 = Rat(countWins(SubSeq(window, played - 19, played)), 20)
        /\ (lastCall.called /\ played < 20)
            => /\ lastCall.effectiveness.improving = FALSE
               /\ lastCall.effectiveness.improvementRate = Int2Rat(0)

\* C30: no poll of the betting phase issues a place_bet request while
\* current_turn_seat is defined and is not Bob's seat.
C30_BetsOnlyOnOwnTurn ==
    [][placeBetRequests' > placeBetRequests => turn \in {"undefined", "mine"}]_vars

\* Bob has waited through a poll that showed another seat's turn, and has
\* placed a bet in this hand.
C30_Witness == waitedForTurn /\ placeBetRequests > 0

\* C31: the backoff multiplier always lies in [1, 5]; a pass of the game
\* loop whose poll returns no state, or that raises, multiplies it by 1.5
\* up to the cap of 5; a pass whose poll returns a game state and that does
\* not raise leaves it at 1.
C31_BackoffProgression ==
    [][/\ ~RatLess(pollBackoff', Int2Rat(1))
       /\ ~RatLess(Int2Rat(5), pollBackoff')
       /\ (playPc = "playing" /\ stuckMinutes' # stuckMinutes + 1) =>
            /\ lastPoll' \in {"noState", "raised"}
                 => pollBackoff' = RatMin(RatMul(pollBackoff, Rat(3, 2)), Int2Rat(5))
            /\ lastPoll' \in {"handled", "stuck", "completed"}
                 => pollBackoff' = Int2Rat(1)]_vars

\* C39: if from some point on the hand number play() sees never changes,
\* play() eventually returns; and the session result is recorded at most
\* once.
C39_StalledSessionReturns ==
    /\ <>[][lastHandNumber' = lastHandNumber]_vars => <>(playPc = "returned")
    /\ [](sessionsRecorded <= 1)

\* C32: after any sequence of polls runningCount is the Hi-Lo sum over the
\* distinct cards the polled states have shown, and cardsDealt is their
\* number.
C32_EachCardCountedOnce ==
    /\ runningCount = SumWeights(shown)
    /\ cardsDealt = Len(shown)


C34_OnlyEligibleActions ==
    lastCall.called =>
        /\ lastCall.decision.action = "double" => lastCall.situation.canDouble
        /\ lastCall.decision.action = "split" =>
             /\ lastCall.situation.canSplit
             /\ Len(lastCall.situation.playerHand) = 2
             /\ lastCall.situation.playerHand[1] = lastCall.situation.playerHand[2]

C34_Witness ==
    /\ lastCall.called
    /\ lastCall.decision.action = "split"
    /\ lastCall.learningAdjustment # 0
    /\ getStrategyModifier1000(Counter) # 0


RECURSIVE SumSeq(_)
SumSeq(s) == IF s = <<>> THEN 0 ELSE Head(s) + SumSeq(Tail(s))

\* C35: the dealer final-hand table of the upcard of every invocation of
\* calculateHitEV is a probability distribution (no negative entry, the six
\* entries sum to 1) whose bust entry is the one of the dealer
\* bust-probability table, and the next-card probabilities sum to 1.
C35_TablesAreDistributions ==
    hitEV.pc = "running" =>
        LET dealerDist == getDealerFinalDistribution(hitEV.dealerUpcard)
        IN  /\ \A i \in 1..6 : dealerDist[i] >= 0
            /\ SumSeq(dealerDist) = 10000
            /\ dealerDist[6] = getDealerBustProbability(hitEV.dealerUpcard)
            /\ SumSeq([cardValue \in CardValues |-> cardProbs(cardValue)]) = 416


\* C36: for the upcard of every invocation of calculateHitEV on a total of 4
\* to 21, the stand EV of no higher total up to 21 is below the stand EV of
\* this total, and the stand EV and the hit EV of the invocation lie within
\* one bet of zero.
C36_StandEVMonotoneAndBounded ==
    (hitEV.pc = "running" /\ hitEV.playerTotal \in 4..21) =>
        LET standEV == calculateStandEV(hitEV.playerTotal, hitEV.dealerUpcard)
            hitAgainEV == calculateHitEV(hitEV.playerTotal, hitEV.dealerUpcard,
                                         hitEV.isSoft, hitEV.depth)
        IN  /\ \A higher \in hitEV.playerTotal..21 :
                 standEV <= calculateStandEV(higher, hitEV.dealerUpcard)
            /\ standEV >= -1000000 /\ standEV <= 1000000
            /\ hitAgainEV >= -1000000 /\ hitAgainEV <= 1000000


\* C37: whenever recordSession has updated the memory, totalHandsPlayed is
\* the number of hands recorded through recordHand since the memory was
\* created and totalSessionsPlayed is the number of sessions recorded.
C37_CountersTallyRecords ==
    [][sessionsRecorded' = sessionsRecorded + 1 =>
         /\ memory'.totalHandsPlayed = handsRecorded'
         /\ memory'.totalSessionsPlayed = sessionsRecorded']_vars


\* C38: over any sequence of lobby polls and payment and registration
\* outcomes Bob has paid the entry fee of a session id at most once.
C38_EntryFeePaidAtMostOnce ==
    \A id \in SessionIds : feesPaid[id] <= 1

====
